---- MODULE Spec2Model ----
(***************************************************************************)
(* A model of the SQLRite storage engine core: the Schema Translator      *)
(* (CreateQuery::new), the Insert Translator (InsertQuery::new), the      *)
(* Table engine (Table::new, validate_unique_constraint, insert_row) and   *)
(* the Command Dispatcher (process_command).                               *)
(*                                                                         *)
(* Representation.                                                         *)
(*  - A string that is parsed or stored as a value is a sequence of        *)
(*    one-character strings (<<"1","2">> is "12"), and so is the type name *)
(*    the Schema Translator hands to DataType::new; identifiers that are   *)
(*    only compared (table names, column names, enum variants) are strings.*)
(*  - A character outside ASCII is the string that names its code point,   *)
(*    "U+" and at least four hexadecimal digits: <<"U+00C9","t","e">> is   *)
(*    the text of E with acute, t, e.  So is the grave accent, "U+0060",   *)
(*    which a string of TLA+ cannot hold.                                  *)
(*  - An i32 is an integer of TLC (which are 32-bit two's complement).     *)
(*  - An i64 is the pair <<hi, lo>> of its two 32-bit words in two's       *)
(*    complement, each read as an i32: `v as i32` is lo and i64::from(x)   *)
(*    is x with its sign extended into hi.                                 *)
(*  - An f32 is a record: the class (finite, inf, nan), the sign, and for  *)
(*    a finite number the integer mant < 2^24 and the power exp of two     *)
(*    with value mant * 2^exp (exp = -149 for zero and subnormal numbers). *)
(*  - A BTreeMap / HashMap is a function with a finite domain.             *)
(*  - The profile the program was built with is the variable               *)
(*    overflow_checks: it is drawn when the program starts and never       *)
(*    changes.  With it, `+` on integers panics when the sum leaves the    *)
(*    range of the type; without it the sum wraps.                         *)
(*  - A panic of the program is the result kind "Panic"; the process is    *)
(*    gone after it, so no statement is processed after a panic.           *)
(*  - A value that the code binds with `let` and reads several times is    *)
(*    passed as an argument to the operator that models the code after     *)
(*    the binding.                                                         *)
(***************************************************************************)
EXTENDS Integers, Sequences, FiniteSets, TLC

VARIABLES
    tables,     \* Database.tables: table name -> Table
    cmd,        \* the statements process_command was last called with
    result,     \* what that call returned (or that it panicked)
    overflow_checks
                \* the build traps integer overflow (the dev profile of cargo)
                \* or lets the sum wrap (the release profile)

vars == <<tables, cmd, result, overflow_checks>>

(***************************************************************************)
(* Integers of the program                                                 *)
(***************************************************************************)
I32_MAX == 2147483647
I32_MIN == (-I32_MAX) - 1

\* i64::from(x): the sign of x fills the high word.
I64From(x) == <<IF x < 0 THEN -1 ELSE 0, x>>

\* `v as i32`: the low 32 bits, read as a signed number.
AsI32(v) == v[2]

\* The low words of a 64-bit addition: <<carry, low word of the sum>>.  A
\* negative word stands for the unsigned word 2^32 higher.
I64AddLo(x, y) ==
    IF x >= 0 /\ y >= 0
    THEN <<0, IF x > I32_MAX - y
              THEN (x - I32_MAX - 1) + (y - I32_MAX - 1)
              ELSE x + y>>
    ELSE IF x < 0 /\ y < 0
    THEN <<1, IF x < I32_MIN - y
              THEN (x + I32_MAX + 1) + (y + I32_MAX + 1)
              ELSE x + y>>
    ELSE <<IF x + y >= 0 THEN 1 ELSE 0, x + y>>

\* The high word takes the carry; words are added modulo 2^32.
I64Carry(hi, c) == <<I64AddLo(hi, c[1])[2], c[2]>>

\* i64::wrapping_add: the sum modulo 2^64.  It is the sum itself whenever
\* that lies within the i64 range.
I64WrappingAdd(u, v) == I64Carry(I64AddLo(u[1], v[1])[2], I64AddLo(u[2], v[2]))

\* i64 + i64, the operator `+`.  The sum left the i64 range when both
\* operands have one sign and the wrapped sum has the other; a build with
\* overflow checks then panics ("attempt to add with overflow"), a build
\* without them goes on with the wrapped sum.
I64Add(u, v) ==
    [ ok  |-> ~( /\ overflow_checks
                 /\ (u[1] < 0) = (v[1] < 0)
                 /\ (I64WrappingAdd(u, v)[1] < 0) # (u[1] < 0) ),
      val |-> I64WrappingAdd(u, v) ]

I64Double(v) == I64WrappingAdd(v, v)

I64Mul10(v) == I64Double(I64WrappingAdd(v, I64Double(I64Double(v))))

\* The order of two low words read as unsigned numbers.
U32Leq(x, y) == IF (x >= 0) = (y >= 0) THEN x <= y ELSE x >= 0

I64Leq(u, v) == u[1] < v[1] \/ (u[1] = v[1] /\ U32Leq(u[2], v[2]))

\* i64::MAX / 10 = 922337203685477580 and i64::MIN / 10.
I64_MAX_DIV_10 == <<214748364, -858993460>>
I64_MIN_DIV_10 == <<-214748365, 858993460>>

Digit(c) ==
    CASE c = "0" -> 0 [] c = "1" -> 1 [] c = "2" -> 2 [] c = "3" -> 3
      [] c = "4" -> 4 [] c = "5" -> 5 [] c = "6" -> 6 [] c = "7" -> 7
      [] c = "8" -> 8 [] c = "9" -> 9 [] OTHER -> -1

ParseErr == [ok |-> FALSE, val |-> 0]
ParseErr64 == [ok |-> FALSE, val |-> <<0, 0>>]

\* The text after an optional sign.
Unsigned(s) == IF s[1] \in {"+", "-"} THEN Tail(s) ELSE s

\* core::num::from_str_radix for i32, radix 10: digit by digit with checked
\* multiplication and checked addition (subtraction for a negative number).
RECURSIVE AccumulateI32(_, _, _, _)
StepI32(digits, i, acc, positive, d) ==
    IF d < 0 THEN ParseErr
    ELSE IF positive
         THEN IF acc > (I32_MAX - d) \div 10 THEN ParseErr
              ELSE AccumulateI32(digits, i + 1, acc * 10 + d, positive)
         ELSE IF acc < -(IF d = 0 THEN I32_MAX \div 10 ELSE (I32_MAX - d + 1) \div 10)
              THEN ParseErr
              ELSE AccumulateI32(digits, i + 1, acc * 10 - d, positive)

AccumulateI32(digits, i, acc, positive) ==
    IF i > Len(digits) THEN [ok |-> TRUE, val |-> acc]
    ELSE StepI32(digits, i, acc, positive, Digit(digits[i]))

\* str::parse::<i32>()
ParseI32(s) ==
    IF Len(s) = 0 THEN ParseErr
    ELSE IF s[1] \in {"+", "-"} /\ Len(s) = 1 THEN ParseErr
    ELSE AccumulateI32(Unsigned(s), 1, 0, s[1] # "-")

\* The same digit loop for i64: checked_mul by the radix fails beyond
\* i64::MAX / 10 (i64::MIN / 10), checked_add (checked_sub) of the digit
\* fails beyond i64::MAX = ..807 (i64::MIN = ..808).
RECURSIVE AccumulateI64(_, _, _, _)
StepI64(digits, i, acc, positive, d) ==
    IF d < 0 THEN ParseErr64
    ELSE IF positive
         THEN IF ~I64Leq(acc, I64_MAX_DIV_10) THEN ParseErr64
              ELSE IF acc = I64_MAX_DIV_10 /\ d > 7 THEN ParseErr64
              ELSE AccumulateI64(digits, i + 1,
                                 I64WrappingAdd(I64Mul10(acc), I64From(d)), positive)
         ELSE IF ~I64Leq(I64_MIN_DIV_10, acc) THEN ParseErr64
              ELSE IF acc = I64_MIN_DIV_10 /\ d > 8 THEN ParseErr64
              ELSE AccumulateI64(digits, i + 1,
                                 I64WrappingAdd(I64Mul10(acc), I64From(-d)), positive)

AccumulateI64(digits, i, acc, positive) ==
    IF i > Len(digits) THEN [ok |-> TRUE, val |-> acc]
    ELSE StepI64(digits, i, acc, positive, Digit(digits[i]))

\* str::parse::<i64>()
ParseI64(s) ==
    IF Len(s) = 0 THEN ParseErr64
    ELSE IF s[1] \in {"+", "-"} /\ Len(s) = 1 THEN ParseErr64
    ELSE AccumulateI64(Unsigned(s), 1, <<0, 0>>, s[1] # "-")

\* str::parse::<bool>(): exactly "true" or "false".
ParseBool(s) ==
    IF s = <<"t", "r", "u", "e">> THEN [ok |-> TRUE, val |-> TRUE]
    ELSE IF s = <<"f", "a", "l", "s", "e">> THEN [ok |-> TRUE, val |-> FALSE]
    ELSE [ok |-> FALSE, val |-> FALSE]

\* u8::to_ascii_lowercase: the lower case of an ASCII letter; every other
\* character stays.
LowerChar(c) ==
    CASE c = "A" -> "a" [] c = "B" -> "b" [] c = "C" -> "c" [] c = "D" -> "d"
      [] c = "E" -> "e" [] c = "F" -> "f" [] c = "G" -> "g" [] c = "H" -> "h"
      [] c = "I" -> "i" [] c = "J" -> "j" [] c = "K" -> "k" [] c = "L" -> "l"
      [] c = "M" -> "m" [] c = "N" -> "n" [] c = "O" -> "o" [] c = "P" -> "p"
      [] c = "Q" -> "q" [] c = "R" -> "r" [] c = "S" -> "s" [] c = "T" -> "t"
      [] c = "U" -> "u" [] c = "V" -> "v" [] c = "W" -> "w" [] c = "X" -> "x"
      [] c = "Y" -> "y" [] c = "Z" -> "z" [] OTHER -> c

Lowered(s) == [i \in 1..Len(s) |-> LowerChar(s[i])]

(***************************************************************************)
(* str::parse::<f32>(): the text is                                        *)
(*   sign? ( inf | infinity | nan | number ),                              *)
(*   number = ( digit+ | digit+ . digit* | digit* . digit+ ) exp?,         *)
(*   exp = e sign? digit+,  letters in either case,                        *)
(* and the value is the f32 nearest to the decimal number, ties to the     *)
(* even mantissa.  The decimal number is kept exactly, as two naturals N   *)
(* and T written as sequences of decimal digits, lowest digit first,       *)
(* and rounded by binary long division.                                    *)
(***************************************************************************)
F32Finite(neg, mant, exp) == [class |-> "finite", neg |-> neg, mant |-> mant, exp |-> exp]
F32Zero(neg) == F32Finite(neg, 0, -149)
F32Inf(neg) == [class |-> "inf", neg |-> neg, mant |-> 0, exp |-> 0]
F32NaN(neg) == [class |-> "nan", neg |-> neg, mant |-> 0, exp |-> 0]

ParseErrF32 == [ok |-> FALSE, val |-> F32Zero(FALSE)]

RECURSIVE AllDigits(_, _)
AllDigits(s, i) ==
    IF i > Len(s) THEN TRUE
    ELSE Digit(s[i]) >= 0 /\ AllDigits(s, i + 1)

\* The part of a number before its exponent: digits with at most one point
\* and at least one digit.
DecimalBody(s) ==
    /\ Cardinality({i \in 1..Len(s) : s[i] = "."}) <= 1
    /\ Len(s) > Cardinality({i \in 1..Len(s) : s[i] = "."})
    /\ AllDigits(SelectSeq(s, LAMBDA c : c # "."), 1)

\* The first position of s that holds one of the characters, Len(s) + 1
\* when none does.
FirstOf(s, chars) ==
    IF \E i \in 1..Len(s) : s[i] \in chars
    THEN CHOOSE i \in 1..Len(s) :
            /\ s[i] \in chars
            /\ \A k \in 1..(i - 1) : s[k] \notin chars
    ELSE Len(s) + 1

\* The digits of an exponent: e sign? digit+ (s is the text after the e).
ExponentBody(s) ==
    /\ Len(s) > 0
    /\ Len(Unsigned(s)) > 0
    /\ AllDigits(Unsigned(s), 1)

\* The exponent is accumulated while it is below 0x10000.
RECURSIVE AccumulateExponent(_, _, _)
AccumulateExponent(digits, i, exponent) ==
    IF i > Len(digits) THEN exponent
    ELSE AccumulateExponent(digits, i + 1,
                            IF exponent < 65536
                            THEN 10 * exponent + Digit(digits[i])
                            ELSE exponent)

ExponentOf(s) ==
    IF Len(s) = 0 THEN 0
    ELSE IF s[1] = "-" THEN -AccumulateExponent(Tail(s), 1, 0)
    ELSE AccumulateExponent(Unsigned(s), 1, 0)

\* A natural number without its leading zeros; the lowest digit comes first.
RECURSIVE BigStrip(_)
BigStrip(a) ==
    IF Len(a) = 0 \/ a[Len(a)] # 0 THEN a
    ELSE BigStrip(SubSeq(a, 1, Len(a) - 1))

\* The natural number written by the digit characters.
BigOf(chars) == BigStrip([i \in 1..Len(chars) |-> Digit(chars[Len(chars) + 1 - i])])

RECURSIVE BigDoubleFrom(_, _, _)
BigDoubleFrom(a, i, carry) ==
    IF i > Len(a) THEN IF carry = 0 THEN <<>> ELSE <<carry>>
    ELSE <<(2 * a[i] + carry) % 10>> \o BigDoubleFrom(a, i + 1, (2 * a[i] + carry) \div 10)

BigDouble(a) == BigDoubleFrom(a, 1, 0)

RECURSIVE BigLessAt(_, _, _)
BigLessAt(a, b, i) ==
    IF i = 0 THEN FALSE
    ELSE IF a[i] # b[i] THEN a[i] < b[i]
    ELSE BigLessAt(a, b, i - 1)

\* a < b
BigLess(a, b) ==
    IF Len(a) # Len(b) THEN Len(a) < Len(b) ELSE BigLessAt(a, b, Len(a))

RECURSIVE BigSubFrom(_, _, _, _)
BigSubFrom(a, b, i, borrow) ==
    IF i > Len(a) THEN <<>>
    ELSE IF a[i] - borrow - (IF i <= Len(b) THEN b[i] ELSE 0) < 0
    THEN <<a[i] - borrow - (IF i <= Len(b) THEN b[i] ELSE 0) + 10>>
           \o BigSubFrom(a, b, i + 1, 1)
    ELSE <<a[i] - borrow - (IF i <= Len(b) THEN b[i] ELSE 0)>>
           \o BigSubFrom(a, b, i + 1, 0)

\* a - b for a >= b
BigSub(a, b) == BigStrip(BigSubFrom(a, b, 1, 0))

BigZeros(n) == [i \in 1..n |-> 0]

\* The mantissa q and its power of two e: beyond the largest finite f32,
\* (2^24 - 1) * 2^104, the number is infinite.
F32Pack(neg, q, e) ==
    IF q = 16777216 THEN IF e + 1 > 104 THEN F32Inf(neg) ELSE F32Finite(neg, 8388608, e + 1)
    ELSE IF e > 104 THEN F32Inf(neg)
    ELSE F32Finite(neg, q, e)

\* Rounding to nearest, ties to even: r2 is twice the remainder of N / T.
F32Round(neg, q, r2, t, e) ==
    IF BigLess(t, r2) \/ (r2 = t /\ q % 2 = 1)
    THEN F32Pack(neg, q + 1, e)
    ELSE F32Pack(neg, q, e)

\* The k bits of the mantissa still to come, by long division of N by T.
RECURSIVE F32Bits(_, _, _, _, _, _)
F32Bit(neg, n2, t, e, k, q) ==
    IF BigLess(n2, t)
    THEN F32Bits(neg, n2, t, e, k - 1, 2 * q)
    ELSE F32Bits(neg, BigSub(n2, t), t, e, k - 1, 2 * q + 1)

F32Bits(neg, n, t, e, k, q) ==
    IF k = 0 THEN F32Round(neg, q, BigDouble(n), t, e)
    ELSE F32Bit(neg, BigDouble(n), t, e, k, q)

\* a * k for a small k
RECURSIVE BigOfNat(_)
BigOfNat(k) == IF k = 0 THEN <<>> ELSE <<k % 10>> \o BigOfNat(k \div 10)

RECURSIVE BigTimesFrom(_, _, _, _)
BigTimesFrom(a, k, i, carry) ==
    IF i > Len(a) THEN BigOfNat(carry)
    ELSE <<(a[i] * k + carry) % 10>> \o BigTimesFrom(a, k, i + 1, (a[i] * k + carry) \div 10)

BigTimes(a, k) == BigTimesFrom(a, k, 1, 0)

\* N / T is brought into [1/2, 1), the number being N / T * 2^(e + 24), by
\* doubling T or N, twenty doublings at a time while that is not too many; a
\* number below 2^-126 keeps e = -149 and has a mantissa below 2^23.
RECURSIVE F32ScaleUp(_, _, _, _)
F32ScaleUpBy(neg, n, n2, n20, t, e) ==
    IF e - 20 >= -149 /\ BigLess(n20, t)
    THEN F32ScaleUp(neg, n20, t, e - 20)
    ELSE IF e > -149 /\ BigLess(n2, t)
    THEN F32ScaleUp(neg, n2, t, e - 1)
    ELSE F32Bits(neg, n, t, e, 24, 0)

F32ScaleUp(neg, n, t, e) ==
    F32ScaleUpBy(neg, n, BigDouble(n), BigTimes(n, 1048576), t, e)

RECURSIVE F32ScaleDown(_, _, _, _)
F32ScaleDownBy(neg, n, t, t20, e) ==
    IF BigLess(n, t) THEN F32ScaleUp(neg, n, t, e)
    ELSE IF ~BigLess(n, t20) THEN F32ScaleDown(neg, n, t20, e + 20)
    ELSE F32ScaleDown(neg, n, BigDouble(t), e + 1)

F32ScaleDown(neg, n, t, e) == F32ScaleDownBy(neg, n, t, BigTimes(t, 1048576), e)

\* The f32 nearest to m * 10^e10.  A number of 10^39 or more is infinite and
\* a number below 10^-46 is zero, whatever its digits.
F32Nearest(neg, m, e10) ==
    IF Len(m) = 0 THEN F32Zero(neg)
    ELSE IF e10 > 39 - Len(m) THEN F32Inf(neg)
    ELSE IF e10 < (-46) - Len(m) THEN F32Zero(neg)
    ELSE IF e10 >= 0
         THEN F32ScaleDown(neg, BigZeros(e10) \o m, <<1>>, -24)
         ELSE F32ScaleDown(neg, m, BigZeros(-e10) \o <<1>>, -24)

\* The number whose part before the exponent is body and whose exponent,
\* with its sign, is exponent: the point is dropped and counted.
F32Decimal(neg, body, point, exponent) ==
    F32Nearest(neg,
               BigOf(SelectSeq(body, LAMBDA c : c # ".")),
               ExponentOf(exponent)
                 - (IF point > Len(body) THEN 0 ELSE Len(body) - point))

\* A number split at its e (position mark, Len(s) + 1 when it has none).
F32Number(neg, s, mark) ==
    IF /\ DecimalBody(SubSeq(s, 1, mark - 1))
       /\ mark <= Len(s) => ExponentBody(SubSeq(s, mark + 1, Len(s)))
    THEN [ok |-> TRUE,
          val |-> F32Decimal(neg, SubSeq(s, 1, mark - 1),
                             FirstOf(SubSeq(s, 1, mark - 1), {"."}),
                             SubSeq(s, mark + 1, Len(s)))]
    ELSE ParseErrF32

\* The text after the sign, in lower case.
F32Unsigned(neg, s) ==
    IF s = <<"i", "n", "f">> \/ s = <<"i", "n", "f", "i", "n", "i", "t", "y">>
    THEN [ok |-> TRUE, val |-> F32Inf(neg)]
    ELSE IF s = <<"n", "a", "n">> THEN [ok |-> TRUE, val |-> F32NaN(neg)]
    ELSE F32Number(neg, s, FirstOf(s, {"e"}))

\* str::parse::<f32>()
ParseF32(s) ==
    IF Len(s) = 0 THEN ParseErrF32
    ELSE F32Unsigned(s[1] = "-", Lowered(Unsigned(s)))

(***************************************************************************)
(* Results of the dispatcher                                               *)
(***************************************************************************)
NoResult == [kind |-> "None", err |-> "None", msg |-> <<>>]
Ok(message) == [kind |-> "Ok", err |-> "None", msg |-> <<message>>]
Err(variant, message) == [kind |-> "Err", err |-> variant, msg |-> message]
Panic == [kind |-> "Panic", err |-> "None", msg |-> <<>>]

(***************************************************************************)
(* Value model: DataType, Index, Row, Column                               *)
(***************************************************************************)
DataTypeMatch(l) ==
    CASE l = <<"i", "n", "t", "e", "g", "e", "r">> -> "Integer"
      [] l = <<"t", "e", "x", "t">> -> "Text"
      [] l = <<"r", "e", "a", "l">> -> "Real"
      [] l = <<"b", "o", "o", "l">> -> "Bool"
      [] l = <<"n", "o", "n", "e">> -> "None"
      [] OTHER -> "Invalid"

\* DataType::new: the match on cmd.to_lowercase().  The five names are made
\* of ASCII letters, and the lower case of a character outside ASCII is
\* again outside ASCII, except for the Kelvin sign (U+212A, which gives k)
\* and for the capital I with dot above (U+0130, which gives i followed by
\* U+0307); neither result occurs in a name.  So the lowered text is one of
\* the names exactly when the text with its ASCII letters lowered is, and
\* the match is taken on that.
DataTypeNew(name) == DataTypeMatch(Lowered(name))

EmptyMap == <<>>

\* BTreeMap::insert / HashMap::insert: the entry under k becomes v.
MapInsert(m, k, v) == [x \in DOMAIN m \cup {k} |-> IF x = k THEN v ELSE m[x]]

ContainsKey(m, k) == k \in DOMAIN m

Index(variant) == [kind |-> variant, map |-> EmptyMap]
Row(variant) == [kind |-> variant, map |-> EmptyMap]

\* An index of the Text variant for a column of any type.
IndexOfText(dt) == Index("Text")

IndexFor(dt) ==
    CASE dt = "Integer" -> Index("Integer")
      [] dt = "Text" -> Index("Text")
      [] OTHER -> Index("None")

ColumnOf(name, dt, is_pk, not_null, is_unique) ==
    [ column_name |-> name,
      datatype    |-> dt,
      is_pk       |-> is_pk,
      not_null    |-> not_null,
      is_unique   |-> is_unique,
      is_indexed  |-> IF is_pk THEN TRUE ELSE FALSE,
      index       |-> IndexFor(dt) ]

ColumnNew(name, datatype, is_pk, not_null, is_unique) ==
    ColumnOf(name, DataTypeNew(datatype), is_pk, not_null, is_unique)

(***************************************************************************)
(* Schema Translator: CreateQuery::new                                     *)
(***************************************************************************)
\* The match on sqlparser's DataType.
DeclaredType(data_type) ==
    CASE data_type \in {"SmallInt", "Int", "BigInt"} -> <<"I", "n", "t", "e", "g", "e", "r">>
      [] data_type = "Boolean" -> <<"B", "o", "o", "l">>
      [] data_type \in {"Text", "Varchar"} -> <<"T", "e", "x", "t">>
      [] data_type \in {"Real", "Float", "Double", "Decimal"} -> <<"R", "e", "a", "l">>
      [] OTHER -> <<"I", "n", "v", "a", "l", "i", "d">>

\* A translator that remembers no earlier primary key.
NoEarlierPk(parsed_columns) == FALSE

\* parsed_columns.iter().any(|col| col.is_pk == true)
AnyPk(parsed_columns) ==
    \E i \in 1..Len(parsed_columns) : parsed_columns[i].is_pk = TRUE

\* A translator that compares no names: no column is seen as declared before.
NeverParsed(parsed_columns, name) == FALSE

\* parsed_columns.iter().any(|col| col.name == name)
AlreadyParsed(parsed_columns, name) ==
    \E k \in 1..Len(parsed_columns) : parsed_columns[k].name = name

NoFlags == [is_pk |-> FALSE, is_unique |-> FALSE, not_null |-> FALSE, multi |-> FALSE]

\* The loop over one column's options; flags.multi is the early return
\* "more than one primary key".
RECURSIVE ScanOptions(_, _, _, _, _)

\* A loop that reads UNIQUE and PRIMARY KEY for a column of any type.
ScanOptionsOfAnyType(options, k, datatype, flags, parsed_columns) ==
    IF k > Len(options) THEN flags
    ELSE IF options[k].kind = "Unique"
    THEN IF options[k].is_primary /\ AnyPk(parsed_columns)
         THEN [flags EXCEPT !.multi = TRUE]
         ELSE ScanOptions(options, k + 1, datatype,
                [flags EXCEPT !.is_pk = options[k].is_primary,
                              !.not_null = IF options[k].is_primary THEN TRUE ELSE @,
                              !.is_unique = TRUE],
                parsed_columns)
    ELSE ScanOptions(options, k + 1, datatype,
                     IF options[k].kind = "NotNull"
                     THEN [flags EXCEPT !.not_null = TRUE] ELSE flags,
                     parsed_columns)

ScanOptions(options, k, datatype, flags, parsed_columns) ==
    IF k > Len(options) THEN flags
    ELSE IF options[k].kind = "Unique"
    THEN IF datatype # <<"R", "e", "a", "l">> /\ datatype # <<"B", "o", "o", "l">>
         THEN IF options[k].is_primary /\ AnyPk(parsed_columns)
              THEN [flags EXCEPT !.multi = TRUE]
              ELSE ScanOptions(options, k + 1, datatype,
                     [flags EXCEPT !.is_pk = options[k].is_primary,
                                   !.not_null = IF options[k].is_primary THEN TRUE ELSE @,
                                   !.is_unique = TRUE],
                     parsed_columns)
         ELSE ScanOptions(options, k + 1, datatype, flags, parsed_columns)
    ELSE ScanOptions(options, k + 1, datatype,
                     IF options[k].kind = "NotNull"
                     THEN [flags EXCEPT !.not_null = TRUE] ELSE flags,
                     parsed_columns)

CreateErr(table_name, error) ==
    [ok |-> FALSE, err |-> error, table_name |-> table_name, columns |-> <<>>]

\* The loop over the declared columns.
RECURSIVE ParseColumns(_, _, _, _)

\* The end of the loop body: the column is pushed unless its options made
\* the translator return.
PushColumn(table_name, columns, i, parsed_columns, name, datatype, flags) ==
    IF flags.multi
    THEN CreateErr(table_name,
                   Err("Internal", <<"Table '", table_name, "' has more than one primary key">>))
    ELSE ParseColumns(table_name, columns, i + 1,
                      Append(parsed_columns,
                             [ name      |-> name,
                               datatype  |-> datatype,
                               is_pk     |-> flags.is_pk,
                               not_null  |-> flags.not_null,
                               is_unique |-> flags.is_unique ]))

ParseColumn(table_name, columns, i, parsed_columns, name, datatype) ==
    PushColumn(table_name, columns, i, parsed_columns, name, datatype,
               ScanOptions(columns[i].options, 1, datatype, NoFlags, parsed_columns))

ParseColumns(table_name, columns, i, parsed_columns) ==
    IF i > Len(columns)
    THEN [ok |-> TRUE, err |-> NoResult,
          table_name |-> table_name, columns |-> parsed_columns]
    ELSE IF AlreadyParsed(parsed_columns, columns[i].name)
    THEN CreateErr(table_name,
                   Err("Internal", <<"Duplicate column name: ", columns[i].name>>))
    ELSE ParseColumn(table_name, columns, i, parsed_columns, columns[i].name,
                     DeclaredType(columns[i].data_type))

CreateQueryNew(statement) ==
    IF statement.kind = "CreateTable"
    THEN ParseColumns(statement.name, statement.columns, 1, <<>>)
    ELSE CreateErr("", Err("Internal", <<"Error parsing query">>))

(***************************************************************************)
(* Table::new                                                              *)
(***************************************************************************)
RowOf(dt) ==
    CASE dt = "Integer" -> Row("Integer")
      [] dt = "Real" -> Row("Real")
      [] dt = "Text" -> Row("Text")
      [] dt = "Bool" -> Row("Bool")
      [] OTHER -> Row("None")

RowFor(datatype) == RowOf(DataTypeNew(datatype))

\* The primary key is the last column flagged is_pk, "-1" when there is none.
RECURSIVE PrimaryKeyOf(_, _, _)
PrimaryKeyOf(columns, i, primary_key) ==
    IF i > Len(columns) THEN primary_key
    ELSE PrimaryKeyOf(columns, i + 1,
                      IF columns[i].is_pk THEN columns[i].name ELSE primary_key)

\* The row stores, filled column by column (a later column of the same name
\* would replace the entry of an earlier one).
RECURSIVE TableRows(_, _, _)
TableRows(columns, i, rows) ==
    IF i > Len(columns) THEN rows
    ELSE TableRows(columns, i + 1,
                   MapInsert(rows, columns[i].name, RowFor(columns[i].datatype)))

TableOf(table_name, columns) ==
    [ tb_name     |-> table_name,
      columns     |-> [i \in 1..Len(columns) |->
                         ColumnNew(columns[i].name, columns[i].datatype,
                                   columns[i].is_pk, columns[i].not_null,
                                   columns[i].is_unique)],
      rows        |-> TableRows(columns, 1, EmptyMap),
      indexes     |-> EmptyMap,
      last_rowid  |-> I64From(0),
      primary_key |-> PrimaryKeyOf(columns, 1, "-1") ]

TableNew(create_query) == TableOf(create_query.table_name, create_query.columns)

ContainsColumn(table, column) ==
    \E i \in 1..Len(table.columns) : table.columns[i].column_name = column

\* Position of the first column with this name (get_column / get_column_mut),
\* 0 when there is none.
ColumnPos(table, column_name) ==
    IF ContainsColumn(table, column_name)
    THEN CHOOSE i \in 1..Len(table.columns) :
            /\ table.columns[i].column_name = column_name
            /\ \A k \in 1..(i - 1) : table.columns[k].column_name # column_name
    ELSE 0

(***************************************************************************)
(* Table::validate_unique_constraint                                       *)
(***************************************************************************)
Null == <<"N", "u", "l", "l">>

UniqueViolation(name, val) ==
    Err("General", <<"Error: unique constraint violation for column ", name,
                     ".\n                        Value ", val,
                     " already exists for column ", name>>)

\* The Integer arm: the value is parsed (unwrap) and looked up in the index.
CheckIntegerKey(column, name, val, n) ==
    IF ~n.ok THEN Panic
    ELSE IF ContainsKey(column.index.map, n.val)
         THEN UniqueViolation(name, val)
         ELSE Ok("")

\* The check of the value paired with cols[idx] against the index of its column.
CheckUnique(column, name, val) ==
    CASE column.index.kind = "Integer" ->
           CheckIntegerKey(column, name, val, ParseI32(val))
      [] column.index.kind = "Text" ->
           IF ContainsKey(column.index.map, val)
           THEN UniqueViolation(name, val)
           ELSE Ok("")
      [] OTHER -> Err("General", <<"Error: cannot find index for column ", name>>)

\* The loop over the caller's columns: Ok(""), the first error, or a panic.
RECURSIVE ValidateFrom(_, _, _, _)

ValidateNext(table, cols, values, idx, r) ==
    IF r.kind = "Ok" THEN ValidateFrom(table, cols, values, idx + 1) ELSE r

\* The loop body for the column at position p of the table (0: not found).
ValidateColumn(table, cols, values, idx, p) ==
    IF p = 0 THEN Panic
    ELSE IF table.columns[p].is_unique
    THEN IF idx > Len(values) THEN Panic
         ELSE ValidateNext(table, cols, values, idx,
                           CheckUnique(table.columns[p], cols[idx], values[idx]))
    ELSE ValidateFrom(table, cols, values, idx + 1)

ValidateFrom(table, cols, values, idx) ==
    IF idx > Len(cols) THEN Ok("")
    ELSE ValidateColumn(table, cols, values, idx, ColumnPos(table, cols[idx]))

ValidateUniqueConstraint(table, cols, values) == ValidateFrom(table, cols, values, 1)

(***************************************************************************)
(* Table::insert_row                                                       *)
(***************************************************************************)
\* tree.insert(rowid, val) on the row store of a column.
WithRowValue(table, name, rowid, val) ==
    [table EXCEPT !.rows[name].map = MapInsert(@, rowid, val)]

\* index.insert(key, rowid) when the index of the column has this variant.
WithIndexEntry(table, p, variant, key, rowid) ==
    IF table.columns[p].index.kind = variant
    THEN [table EXCEPT !.columns[p].index.map = MapInsert(@, key, rowid)]
    ELSE table

\* The scan of the caller's columns for the primary key: the rowid becomes
\* the i64 read from the value paired with it (the last one, if it is named
\* more than once).
RECURSIVE ScanPrimaryKey(_, _, _, _, _)

ScanParsed(cols, values, i, primary_key, next_rowid, n) ==
    IF ~n.ok THEN [panic |-> TRUE, next_rowid |-> next_rowid]
    ELSE ScanPrimaryKey(cols, values, i + 1, primary_key, n.val)

ScanPrimaryKey(cols, values, i, primary_key, next_rowid) ==
    IF i > Len(cols) THEN [panic |-> FALSE, next_rowid |-> next_rowid]
    ELSE IF cols[i] = primary_key
         THEN IF i > Len(values) THEN [panic |-> TRUE, next_rowid |-> next_rowid]
              ELSE ScanParsed(cols, values, i, primary_key, next_rowid,
                              ParseI64(values[i]))
         ELSE ScanPrimaryKey(cols, values, i + 1, primary_key, next_rowid)

\* The primary key is not among the caller's columns: the rowid, cast to
\* i32, is stored as its value and indexed.
AutoAssign(table, next_rowid) ==
    [ table |-> WithIndexEntry(
                    WithRowValue(table, table.primary_key, next_rowid, AsI32(next_rowid)),
                    ColumnPos(table, table.primary_key), "Integer",
                    AsI32(next_rowid), next_rowid),
      next_rowid |-> next_rowid,
      panic |-> FALSE ]

ExplicitRowid(table, s) ==
    [table |-> table, next_rowid |-> s.next_rowid, panic |-> s.panic]

\* The first block of insert_row: the rowid of the row, and the primary key
\* stored when the caller's columns leave it out.
AssignFrom(table, cols, values, next_rowid) ==
    IF table.primary_key = "-1"
    THEN [table |-> table, next_rowid |-> next_rowid, panic |-> FALSE]
    ELSE IF ~(\E i \in 1..Len(cols) : cols[i] = table.primary_key)
    THEN IF table.rows[table.primary_key].kind = "Integer"
         THEN AutoAssign(table, next_rowid)
         ELSE [table |-> table, next_rowid |-> next_rowid, panic |-> FALSE]
    ELSE IF table.rows[table.primary_key].kind = "Integer"
         THEN ExplicitRowid(table,
                  ScanPrimaryKey(cols, values, 1, table.primary_key, next_rowid))
         ELSE [table |-> table, next_rowid |-> next_rowid, panic |-> FALSE]

\* A first block that starts from last_rowid itself.
AssignLastRowid(table, cols, values) ==
    AssignFrom(table, cols, values, table.last_rowid)

\* let mut next_rowid = self.last_rowid + i64::from(1), then the first
\* block.  A panic of the addition leaves the table as it was.
AssignRowid(table, cols, values) ==
    IF ~I64Add(table.last_rowid, I64From(1)).ok
    THEN [table |-> table, next_rowid |-> table.last_rowid, panic |-> TRUE]
    ELSE AssignFrom(table, cols, values, I64Add(table.last_rowid, I64From(1)).val)

\* An Integer arm that stores 0 for a text that is no number.
StoreDefaultI32(table, key, p, n, next_rowid) ==
    [table |-> WithIndexEntry(WithRowValue(table, key, next_rowid, n.val),
                              p, "Integer", n.val, next_rowid),
     panic |-> FALSE]

\* The Integer arm of the match on the row store.
StoreI32(table, key, p, n, next_rowid) ==
    IF ~n.ok THEN [table |-> table, panic |-> TRUE]
    ELSE [table |-> WithIndexEntry(WithRowValue(table, key, next_rowid, n.val),
                                   p, "Integer", n.val, next_rowid),
          panic |-> FALSE]

\* The Real and Bool arms: parsed, stored, not indexed.
StoreParsed(table, key, n, next_rowid) ==
    IF ~n.ok THEN [table |-> table, panic |-> TRUE]
    ELSE [table |-> WithRowValue(table, key, next_rowid, n.val), panic |-> FALSE]

\* The match on the row store of one column: the value is parsed into the
\* native type of the column and stored under the rowid, and in the index of
\* the column when the index has the matching variant.
StoreAt(table, key, val, next_rowid, p) ==
    CASE table.rows[key].kind = "Integer" ->
           StoreI32(table, key, p, ParseI32(val), next_rowid)
      [] table.rows[key].kind = "Text" ->
           [table |-> WithIndexEntry(WithRowValue(table, key, next_rowid, val),
                                     p, "Text", val, next_rowid),
            panic |-> FALSE]
      [] table.rows[key].kind = "Real" ->
           StoreParsed(table, key, ParseF32(val), next_rowid)
      [] table.rows[key].kind = "Bool" ->
           StoreParsed(table, key, ParseBool(val), next_rowid)
      [] OTHER -> [table |-> table, panic |-> TRUE]

StoreValue(table, key, val, next_rowid) ==
    StoreAt(table, key, val, next_rowid, ColumnPos(table, key))

\* The loop over the declared columns with the forward cursor j into the
\* caller's columns (j here is the program's j + 1).
RECURSIVE StoreColumns(_, _, _, _, _, _)

StoreNext(cols, values, i, j, next_rowid, s) ==
    IF s.panic THEN s
    ELSE StoreColumns(s.table, cols, values, i + 1, j, next_rowid)

\* A loop body that stores nothing for a column the cursor does not name.
StoreNamedOnly(table, cols, values, i, j, next_rowid, name, matched) ==
    IF ~matched THEN StoreColumns(table, cols, values, i + 1, j, next_rowid)
    ELSE StoreNext(cols, values, i, j + 1, next_rowid,
                   StoreValue(table, name, values[j], next_rowid))

\* A loop body that compares no names: the declared column takes the value
\* under the cursor, "Null" when the cursor is past the last value.
StoreByPosition(table, cols, values, i, j, next_rowid, name, matched) ==
    StoreNext(cols, values, i, IF j <= Len(values) THEN j + 1 ELSE j, next_rowid,
              StoreValue(table, name, IF j <= Len(values) THEN values[j] ELSE Null,
                         next_rowid))

\* The loop body for the declared column `name`; matched: the caller's
\* column under the cursor is this column.
StoreColumn(table, cols, values, i, j, next_rowid, name, matched) ==
    IF ~matched /\ table.primary_key = name
    THEN StoreColumns(table, cols, values, i + 1, j, next_rowid)
    ELSE IF matched /\ j > Len(values)
    THEN [table |-> table, panic |-> TRUE]
    ELSE StoreNext(cols, values, i, IF matched THEN j + 1 ELSE j, next_rowid,
                   StoreValue(table, name, IF matched THEN values[j] ELSE Null,
                              next_rowid))

StoreColumns(table, cols, values, i, j, next_rowid) ==
    IF i > Len(table.columns) THEN [table |-> table, panic |-> FALSE]
    ELSE StoreColumn(table, cols, values, i, j, next_rowid,
                     table.columns[i].column_name,
                     j <= Len(cols) /\ cols[j] = table.columns[i].column_name)

\* The forward cursor j after the declared columns from position i on, when
\* no value makes the loop panic (j here is the program's j + 1).
RECURSIVE Cursor(_, _, _, _)
Cursor(table, cols, i, j) ==
    IF i > Len(table.columns) THEN j
    ELSE Cursor(table, cols, i + 1,
                IF j <= Len(cols) /\ cols[j] = table.columns[i].column_name
                THEN j + 1 ELSE j)

\* self.last_rowid = next_rowid, reached when nothing panicked.
SetLastRowid(s, next_rowid) ==
    IF s.panic THEN s
    ELSE [table |-> [s.table EXCEPT !.last_rowid = next_rowid], panic |-> FALSE]

StoreRow(a, cols, values) ==
    IF a.panic THEN [table |-> a.table, panic |-> TRUE]
    ELSE SetLastRowid(StoreColumns(a.table, cols, values, 1, 1, a.next_rowid),
                      a.next_rowid)

\* insert_row: the table after the call and whether the call panicked (the
\* table then keeps what was stored before the panic).
InsertRow(table, cols, values) ==
    StoreRow(AssignRowid(table, cols, values), cols, values)

\* print_table_data panics on a table without columns and on a column whose
\* row store has the variant None.
PrintTableDataPanics(table) ==
    \/ Len(table.columns) = 0
    \/ \E i \in 1..Len(table.columns) :
          table.rows[table.columns[i].column_name].kind = "None"

(***************************************************************************)
(* Insert Translator: InsertQuery::new                                     *)
(***************************************************************************)
\* What one expression adds to the values of its row.
ExprValues(e) ==
    CASE e.kind = "Number" -> <<e.text>>
      [] e.kind = "Boolean" -> IF e.text = <<"t", "r", "u", "e">>
                               THEN << <<"t", "r", "u", "e">> >>
                               ELSE << <<"f", "a", "l", "s", "e">> >>
      [] e.kind = "SingleQuotedString" -> <<e.text>>
      [] e.kind = "Null" -> <<Null>>
      [] e.kind = "Identifier" -> <<e.text>>
      [] OTHER -> <<>>

RECURSIVE ValueSet(_, _)
ValueSet(exprs, k) ==
    IF k > Len(exprs) THEN <<>>
    ELSE ExprValues(exprs[k]) \o ValueSet(exprs, k + 1)

InsertQueryNew(statement) ==
    IF statement.kind = "Insert"
    THEN [ok |-> TRUE, err |-> NoResult,
          table_name |-> statement.table_name,
          columns |-> statement.columns,
          rows |-> IF statement.source.kind = "Values"
                   THEN [r \in 1..Len(statement.source.rows) |->
                            ValueSet(statement.source.rows[r], 1)]
                   ELSE <<>>]
    ELSE [ok |-> FALSE, err |-> Err("Internal", <<"Error parsing insert query">>),
          table_name |-> "", columns |-> <<>>, rows |-> <<>>]

(***************************************************************************)
(* Command Dispatcher: process_command                                     *)
(***************************************************************************)
\* The loop over the rows of an INSERT: the table after it and NoResult, or
\* the error / panic that ended it.
RECURSIVE InsertRows(_, _, _, _)

AfterInsertRow(columns, values, r, s) ==
    IF s.panic THEN [table |-> s.table, result |-> Panic]
    ELSE InsertRows(s.table, columns, values, r + 1)

\* The match on what validate_unique_constraint returned for row r.
AfterValidate(table, columns, values, r, v) ==
    IF v.kind = "Ok"
    THEN AfterInsertRow(columns, values, r, InsertRow(table, columns, values[r]))
    ELSE IF v.kind = "Panic" THEN [table |-> table, result |-> Panic]
    ELSE [table |-> table,
          result |-> Err("Internal",
                         <<"Unique key constaint violation: ", "General error: ">> \o v.msg)]

\* A loop that does not compare the number of values with the number of
\* columns.
InsertRowsUncounted(table, columns, values, r) ==
    IF r > Len(values) THEN [table |-> table, result |-> NoResult]
    ELSE AfterValidate(table, columns, values, r,
                       ValidateUniqueConstraint(table, columns, values[r]))

InsertRows(table, columns, values, r) ==
    IF r > Len(values) THEN [table |-> table, result |-> NoResult]
    ELSE IF Len(columns) # Len(values[r])
    THEN [table |-> table,
          result |-> Err("Internal",
                         <<"", Len(values[r]), " values for ", Len(columns), " columns">>)]
    ELSE AfterValidate(table, columns, values, r,
                       ValidateUniqueConstraint(table, columns, values[r]))

\* A catalog lookup that finds nothing.
ContainsNoTable(db, table_name) == FALSE

\* Database::contains_table
ContainsTable(db, table_name) == ContainsKey(db, table_name)

\* A dispatcher that creates the table without looking for its name in the
\* catalog.
CreateOverwriting(db, create_query) ==
    IF ~create_query.ok THEN [tables |-> db, result |-> create_query.err]
    ELSE [tables |-> MapInsert(db, create_query.table_name, TableNew(create_query)),
          result |-> Ok("CREATE TABLE Statement executed.")]

\* A lookup that finds no table.
GetNoTable(db, table_name) ==
    [ok |-> FALSE, table |-> EmptyMap, db |-> db,
     err |-> Err("General", <<"Table not found.">>)]

\* Database::get_table: the table under the name, or the error; db is the
\* catalog after the call.
GetTable(db, table_name) ==
    IF ContainsKey(db, table_name)
    THEN [ok |-> TRUE, table |-> db[table_name], db |-> db, err |-> NoResult]
    ELSE [ok |-> FALSE, table |-> EmptyMap, db |-> db,
          err |-> Err("General", <<"Table not found.">>)]

\* Database::get_table_mut
GetTableMut(db, table_name) ==
    IF ContainsKey(db, table_name)
    THEN [ok |-> TRUE, table |-> db[table_name], db |-> db, err |-> NoResult]
    ELSE [ok |-> FALSE, table |-> EmptyMap, db |-> db,
          err |-> Err("General", <<"Table not found.">>)]

\* The match on what CreateQuery::new returned.
CreateInto(db, create_query) ==
    IF ~create_query.ok THEN [tables |-> db, result |-> create_query.err]
    ELSE IF ContainsTable(db, create_query.table_name)
    THEN [tables |-> db,
          result |-> Err("Internal", <<"Cannot create, table already exists.">>)]
    ELSE [tables |-> MapInsert(db, create_query.table_name, TableNew(create_query)),
          result |-> Ok("CREATE TABLE Statement executed.")]

ProcessCreateTable(query, db) == CreateInto(db, CreateQueryNew(query))

\* After the loop over the rows: its error, or print_table_data and Ok.
AfterInsertRows(db, table_name, s) ==
    [ tables |-> [db EXCEPT ![table_name] = s.table],
      result |-> IF s.result.kind # "None" THEN s.result
                 ELSE IF PrintTableDataPanics(s.table) THEN Panic
                 ELSE Ok("INSERT Statement executed.") ]

\* A dispatcher that does not compare the named columns with the table.
InsertUnchecked(db, insert_query) ==
    IF ~insert_query.ok THEN [tables |-> db, result |-> insert_query.err]
    ELSE IF ~ContainsTable(db, insert_query.table_name)
    THEN [tables |-> db, result |-> Err("Internal", <<"Table doesn't exist">>)]
    ELSE AfterInsertRows(db, insert_query.table_name,
                         InsertRows(db[insert_query.table_name], insert_query.columns,
                                    insert_query.rows, 1))

\* The match on what InsertQuery::new returned.
InsertInto(db, insert_query) ==
    IF ~insert_query.ok THEN [tables |-> db, result |-> insert_query.err]
    ELSE IF ~ContainsTable(db, insert_query.table_name)
    THEN [tables |-> db, result |-> Err("Internal", <<"Table doesn't exist">>)]
    ELSE IF ~(\A i \in 1..Len(insert_query.columns) :
                ContainsColumn(db[insert_query.table_name], insert_query.columns[i]))
    THEN [tables |-> db,
          result |-> Err("Internal", <<"Cannot insert, some of the columns do not exist">>)]
    ELSE AfterInsertRows(db, insert_query.table_name,
                         InsertRows(db[insert_query.table_name], insert_query.columns,
                                    insert_query.rows, 1))

ProcessInsert(query, db) == InsertInto(db, InsertQueryNew(query))

\* A dispatcher without the arms for SELECT and DELETE.
DispatchWithoutStubs(query, db) ==
    CASE query.kind = "CreateTable" -> ProcessCreateTable(query, db)
      [] query.kind = "Insert" -> ProcessInsert(query, db)
      [] OTHER -> [tables |-> db,
                   result |-> Err("NotImplemented", <<"SQL Statement not supported yet.">>)]

\* A dispatcher that answers every other statement like a DELETE.
DispatchEverything(query, db) ==
    CASE query.kind = "CreateTable" -> ProcessCreateTable(query, db)
      [] query.kind = "Insert" -> ProcessInsert(query, db)
      [] query.kind = "Query" -> [tables |-> db, result |-> Ok("SELECT Statement executed.")]
      [] OTHER -> [tables |-> db, result |-> Ok("DELETE Statement executed.")]

\* The match on the statement.
Dispatch(query, db) ==
    CASE query.kind = "CreateTable" -> ProcessCreateTable(query, db)
      [] query.kind = "Insert" -> ProcessInsert(query, db)
      [] query.kind = "Query" -> [tables |-> db, result |-> Ok("SELECT Statement executed.")]
      [] query.kind = "Delete" -> [tables |-> db, result |-> Ok("DELETE Statement executed.")]
      [] OTHER -> [tables |-> db,
                   result |-> Err("NotImplemented", <<"SQL Statement not supported yet.">>)]

\* A dispatcher that executes the last statement of the text, whatever the
\* number of statements.
ProcessLast(ast, db) ==
    IF Len(ast) = 0 THEN [tables |-> db, result |-> Panic]
    ELSE Dispatch(ast[Len(ast)], db)

\* process_command on the statements the parser produced for the query text.
ProcessCommand(ast, db) ==
    IF Len(ast) > 1
    THEN [tables |-> db,
          result |-> Err("SqlError", <<"Expected a single query statement, but there are ", Len(ast)>>)]
    ELSE IF Len(ast) = 0 THEN [tables |-> db, result |-> Panic]
    ELSE Dispatch(ast[1], db)

(***************************************************************************)
(* Statements submitted to the dispatcher                                  *)
(***************************************************************************)
MaxRows == 2        \* rows a table may hold before another INSERT is submitted

ColumnDef(name, data_type, options) ==
    [name |-> name, data_type |-> data_type, options |-> options]

PrimaryKey == [kind |-> "Unique", is_primary |-> TRUE]
Unique == [kind |-> "Unique", is_primary |-> FALSE]
NotNull == [kind |-> "NotNull", is_primary |-> FALSE]

CreateTableStmt(name, columns) ==
    [kind |-> "CreateTable", name |-> name, columns |-> columns]

InsertStmt(table_name, columns, rows) ==
    [kind |-> "Insert", table_name |-> table_name, columns |-> columns,
     source |-> [kind |-> "Values", rows |-> rows]]

Number(text) == [kind |-> "Number", text |-> text]
Quoted(text) == [kind |-> "SingleQuotedString", text |-> text]
NullLiteral == [kind |-> "Null", text |-> <<>>]
BinaryOp(text) == [kind |-> "BinaryOp", text |-> text]

\* CREATE TABLE t (id INTEGER PRIMARY KEY, a TEXT UNIQUE) and the statements
\* that collide with it.
CreateStatements ==
    { CreateTableStmt("t", <<ColumnDef("id", "Int", <<PrimaryKey>>),
                             ColumnDef("a", "Text", <<Unique>>)>>),
      CreateTableStmt("t", <<ColumnDef("a", "Text", <<>>)>>),
      CreateTableStmt("t", <<ColumnDef("a", "Text", <<>>),
                             ColumnDef("a", "Int", <<>>)>>),
      CreateTableStmt("t", <<ColumnDef("id", "Int", <<PrimaryKey>>),
                             ColumnDef("a", "Int", <<PrimaryKey>>)>>),
      CreateTableStmt("t", <<ColumnDef("a", "Real", <<Unique>>)>>) }

Exprs ==
    { Number(<<"1">>), NullLiteral,
      Number(<<"2", "1", "4", "7", "4", "8", "3", "6", "4", "7">>) }

FewExprs == { Number(<<"1">>), Quoted(<<"x">>) }

ColumnLists == { <<"a">>, <<"id">>, <<"id", "a">>, <<"a", "id">> }

RowsOver(exprs, n) == [1..n -> exprs]

\* One-row statements over every column list, with one or two values in the
\* row, two-row statements for the column list (a), a two-row statement
\* whose second row has one value too many, a two-row statement for the
\* column list (a, id) whose rows carry the same id, and
\* INSERT INTO t (id, a) VALUES (1 + 1, 1, 'x'), whose first expression is
\* of a kind the Insert Translator has no arm for.
InsertStatements ==
    { InsertStmt("t", c, <<r>>) :
        c \in ColumnLists, r \in UNION {RowsOver(Exprs, n) : n \in 1..2} }
    \cup
    { InsertStmt("t", c, <<r1, r2>>) :
        c \in {<<"a">>}, r1 \in RowsOver(FewExprs, 1), r2 \in RowsOver(FewExprs, 1) }
    \cup
    { InsertStmt("t", <<"a">>, << <<Quoted(<<"x">>)>>, <<Quoted(<<"y">>), Number(<<"1">>)>> >>) }
    \cup
    { InsertStmt("t", <<"a", "id">>, << <<Quoted(<<"x">>), Number(<<"1">>)>>,
                                       <<Number(<<"1">>), Number(<<"1">>)>> >>) }
    \cup
    { InsertStmt("t", <<"id", "a">>, << <<BinaryOp(<<"1", "+", "1">>),
                                         Number(<<"1">>), Quoted(<<"x">>)>> >>) }

\* SELECT * FROM n, DELETE FROM n and UPDATE n SET .. for a table named n.
QueryStmt(table_name) == [kind |-> "Query", table_name |-> table_name]
DeleteStmt(table_name) == [kind |-> "Delete", table_name |-> table_name]
UpdateStmt(table_name) == [kind |-> "Update", table_name |-> table_name]

\* Statements on table t and on a table v that is never created.
OtherStatements ==
    { QueryStmt("t"), QueryStmt("v"), DeleteStmt("t"), DeleteStmt("v"), UpdateStmt("t") }

\* Texts that parse into two statements.
SeveralStatements ==
    { << CreateTableStmt("t", <<ColumnDef("a", "Text", <<>>)>>),
         InsertStmt("t", <<"a">>, << <<Quoted(<<"x">>)>> >>) >>,
      << InsertStmt("t", <<"a">>, << <<Quoted(<<"x">>)>> >>),
         QueryStmt("t") >> }

(***************************************************************************)
(* The state machine: one call of process_command per step                 *)
(***************************************************************************)
\* The rowids under which a table holds a value.
StoredRowids(table) == UNION {DOMAIN table.rows[n].map : n \in DOMAIN table.rows}

\* A panic ends the process: main.rs does not catch it.
Alive == result.kind # "Panic"

\* What the call leaves behind: the database, the result, the statements.
Returned(ast, out) ==
    /\ tables' = out.tables
    /\ result' = out.result
    /\ cmd' = ast
    /\ UNCHANGED overflow_checks

Submit(ast) ==
    /\ Alive
    /\ Returned(ast, ProcessCommand(ast, tables))

Init ==
    /\ tables = EmptyMap
    /\ cmd = <<>>
    /\ result = NoResult
    /\ overflow_checks \in BOOLEAN

CreateTable == \E s \in CreateStatements : Submit(<<s>>)

Insert ==
    \E s \in InsertStatements :
        /\ ContainsKey(tables, s.table_name) =>
              Cardinality(StoredRowids(tables[s.table_name])) + Len(s.source.rows) <= MaxRows
        /\ Submit(<<s>>)

Other == \E s \in OtherStatements : Submit(<<s>>)

Several == \E ast \in SeveralStatements : Submit(ast)

Next == CreateTable \/ Insert \/ Other \/ Several

Spec == Init /\ [][Next]_vars

(***************************************************************************)
(* The Schema Translator on its own: the statement is drawn at the start   *)
(* and submitted once, to an empty catalog or to one that holds table u.   *)
(***************************************************************************)
MaxColumns == 3     \* columns declared by one CREATE TABLE statement

Decls ==
    { ColumnDef("a", "Int", <<PrimaryKey>>),
      ColumnDef("b", "Int", <<PrimaryKey>>),
      ColumnDef("b", "Real", <<PrimaryKey>>),
      ColumnDef("a", "Int", <<PrimaryKey, Unique>>),
      ColumnDef("a", "Text", <<>>),
      ColumnDef("c", "Custom", <<Unique, NotNull>>),
      ColumnDef("d", "Boolean", <<Unique>>) }

WideCreateStatements ==
    { CreateTableStmt("t", columns) :
        columns \in UNION {[1..n -> Decls] : n \in 1..MaxColumns} }

CatalogU ==
    ProcessCommand(<<CreateTableStmt("u", <<ColumnDef("a", "Text", <<>>)>>)>>, EmptyMap).tables

InitCreate ==
    /\ tables \in {EmptyMap, CatalogU}
    /\ cmd \in {<<s>> : s \in WideCreateStatements}
    /\ result = NoResult
    /\ overflow_checks \in BOOLEAN

Translate ==
    /\ result.kind = "None"
    /\ Returned(cmd, ProcessCommand(cmd, tables))

SpecCreate == InitCreate /\ [][Translate]_vars

(***************************************************************************)
(* The row engine on tables of three columns: the catalog holds one table  *)
(* at the start, CREATE TABLE s adds a second one, and an INSERT names     *)
(* columns of its table in any order, with one value for each of them.     *)
(***************************************************************************)
Boolean(text) == [kind |-> "Boolean", text |-> text]

\* CREATE TABLE p (n INTEGER, a TEXT NOT NULL, b TEXT),
\* CREATE TABLE k (id INTEGER PRIMARY KEY, a TEXT, b TEXT),
\* CREATE TABLE q (n INTEGER, r REAL, f BOOLEAN) and
\* CREATE TABLE z (c DATE, a TEXT), whose column c has a type the Schema
\* Translator does not know.
RowTables ==
    { CreateTableStmt("p", <<ColumnDef("n", "Int", <<>>),
                             ColumnDef("a", "Text", <<NotNull>>),
                             ColumnDef("b", "Text", <<>>)>>),
      CreateTableStmt("k", <<ColumnDef("id", "Int", <<PrimaryKey>>),
                             ColumnDef("a", "Text", <<>>),
                             ColumnDef("b", "Text", <<>>)>>),
      CreateTableStmt("q", <<ColumnDef("n", "Int", <<>>),
                             ColumnDef("r", "Real", <<>>),
                             ColumnDef("f", "Boolean", <<>>)>>),
      CreateTableStmt("z", <<ColumnDef("c", "Date", <<>>),
                             ColumnDef("a", "Text", <<>>)>>) }

\* CREATE TABLE s (id TEXT PRIMARY KEY, a TEXT)
SecondTable ==
    CreateTableStmt("s", <<ColumnDef("id", "Text", <<PrimaryKey>>),
                           ColumnDef("a", "Text", <<>>)>>)

\* The column lists that name each of the names at most once.
ListsOver(names) ==
    { c \in UNION {[1..n -> names] : n \in 1..Cardinality(names)} :
        \A i \in 1..Len(c) : \A j \in 1..Len(c) : c[i] = c[j] => i = j }

\* INSERT INTO table_name (c) VALUES (r) for every column list c over the
\* columns for which exprs has expressions, and every row r that pairs each
\* named column with one of its expressions.
StatementsOn(table_name, exprs) ==
    UNION { {InsertStmt(table_name, c, <<r>>) :
               r \in {v \in [1..Len(c) -> UNION {exprs[n] : n \in DOMAIN exprs}] :
                        \A i \in 1..Len(c) : v[i] \in exprs[c[i]]}} :
              c \in ListsOver(DOMAIN exprs) }

RowStatements ==
    StatementsOn("p", [n |-> {Number(<<"1">>), Quoted(<<"w">>)},
                       a |-> {Quoted(<<"x">>), Quoted(<<"y">>), NullLiteral},
                       b |-> {Quoted(<<"y">>)}])
    \cup StatementsOn("k", [id |-> {Number(<<"1">>), Number(<<"2">>)},
                            a |-> {Quoted(<<"x">>)},
                            b |-> {Quoted(<<"y">>)}])
    \cup StatementsOn("q", [n |-> {Number(<<"1">>), Quoted(<<"x">>)},
                            r |-> {Number(<<"2">>), Quoted(<<"y">>),
                                   Quoted(<<"i", "n", "f">>)},
                            f |-> {Boolean(<<"t", "r", "u", "e">>), Number(<<"3">>)}])
    \cup StatementsOn("s", [id |-> {Quoted(<<"x">>), Quoted(<<"y">>)},
                            a |-> {Quoted(<<"z">>)}])
    \cup StatementsOn("z", [c |-> {Quoted(<<"x">>)},
                            a |-> {Quoted(<<"y">>)}])

\* The catalog after the statement alone.
CatalogOf(statement) == ProcessCommand(<<statement>>, EmptyMap).tables

\* The rows the tables of the catalog hold.
RowsHeld(db) == UNION { {<<n, r>> : r \in StoredRowids(db[n])} : n \in DOMAIN db }

InitRows ==
    /\ tables \in {CatalogOf(s) : s \in RowTables}
    /\ cmd = <<>>
    /\ result = NoResult
    /\ overflow_checks \in BOOLEAN

CreateSecond == Submit(<<SecondTable>>)

\* An INSERT into a table of the catalog, while there is room for its row.
InsertOneRow ==
    \E s \in RowStatements :
        /\ ContainsKey(tables, s.table_name)
        /\ Cardinality(RowsHeld(tables)) + 1 <= MaxRows
        /\ Submit(<<s>>)

NextRows == CreateSecond \/ InsertOneRow

SpecRows == InitRows /\ [][NextRows]_vars

(***************************************************************************)
(* Properties of the INSERT path (specification Spec)                      *)
(***************************************************************************)
\* The step is an INSERT whose table and columns exist, so that the
\* dispatcher reaches the loop over its rows.
InsertReachesRows ==
    /\ Len(cmd') = 1
    /\ cmd'[1].kind = "Insert"
    /\ ContainsTable(tables, cmd'[1].table_name)
    /\ \A i \in 1..Len(cmd'[1].columns) :
          ContainsColumn(tables[cmd'[1].table_name], cmd'[1].columns[i])

\* The table and loop result when the dispatcher has gone through the first
\* k rows of the statement.
AfterRows(table, q, k) == InsertRows(table, q.columns, SubSeq(q.rows, 1, k), 1)

\* Row k of the statement is reached and has as many values as columns.
RowReached(table, q, k) ==
    /\ AfterRows(table, q, k - 1).result.kind = "None"
    /\ Len(q.rows[k]) = Len(q.columns)

\* The row supplies, for a unique column with an Integer or Text index, a
\* value that is a key of that index.
DuplicateIn(table, cols, values) ==
    \E i \in 1..Len(cols) :
        LET column == table.columns[ColumnPos(table, cols[i])] IN
        /\ column.is_unique
        /\ \/ /\ column.index.kind = "Integer"
              /\ ParseI32(values[i]).ok
              /\ ContainsKey(column.index.map, ParseI32(values[i]).val)
           \/ /\ column.index.kind = "Text"
              /\ ContainsKey(column.index.map, values[i])

IsUniqueError(r) ==
    /\ r.kind = "Err"
    /\ r.msg[1] = "Unique key constaint violation: "

DuplicateRowsRejected(table, q, after, res) ==
    \A k \in 1..Len(q.rows) :
        (RowReached(table, q, k)
           /\ DuplicateIn(AfterRows(table, q, k - 1).table, q.columns, q.rows[k]))
        => /\ IsUniqueError(res)
           /\ after = AfterRows(table, q, k - 1).table

\* C1: an INSERT row that supplies, for a unique (or primary key) column of
\* type Integer or Text, a value already present in the index of that column
\* is rejected with a unique-constraint error, and the table is exactly what
\* it was before that row (row stores, indexes and last_rowid).
C1_DuplicateRejected ==
    [][ InsertReachesRows =>
          DuplicateRowsRejected(tables[cmd'[1].table_name], InsertQueryNew(cmd'[1]),
                                tables'[cmd'[1].table_name], result') ]_vars

NoValueTwice(row) ==
    \A r1 \in DOMAIN row.map : \A r2 \in DOMAIN row.map :
        row.map[r1] = row.map[r2] => r1 = r2

\* C2: after any sequence of CREATE TABLE and INSERT statements, no column
\* flagged is_unique holds the same value under two different rowids in its
\* row store.
C2_Uniqueness ==
    Alive =>
      \A n \in DOMAIN tables : \A i \in 1..Len(tables[n].columns) :
          tables[n].columns[i].is_unique
            => NoValueTwice(tables[n].rows[tables[n].columns[i].column_name])

\* C3: last_rowid of a table never decreases: after each step it is greater
\* than or equal to its value before the step.
C3_LastRowidMonotonic ==
    [][ \A n \in DOMAIN tables :
           n \in DOMAIN tables' =>
              I64Leq(tables[n].last_rowid, tables'[n].last_rowid) ]_vars

HasIntegerKey(table) ==
    /\ table.primary_key # "-1"
    /\ table.rows[table.primary_key].kind = "Integer"

Names(cols, name) == {i \in 1..Len(cols) : cols[i] = name}

\* The row was stored with the rowid last_rowid + 1, that number is the value
\* of the key under that rowid in the row store and in the index of the key
\* column, and last_rowid is that number.
AutoAssigned(before, after, rowid) ==
    /\ after.last_rowid = rowid
    /\ rowid \in DOMAIN after.rows[before.primary_key].map
    /\ I64From(after.rows[before.primary_key].map[rowid]) = rowid
    /\ LET index == after.columns[ColumnPos(after, before.primary_key)].index IN
       /\ ContainsKey(index.map, after.rows[before.primary_key].map[rowid])
       /\ index.map[after.rows[before.primary_key].map[rowid]] = rowid

OmittedKeyRows(table, q) ==
    \A k \in 1..Len(q.rows) :
        (/\ HasIntegerKey(table)
         /\ Names(q.columns, table.primary_key) = {}
         /\ AfterRows(table, q, k).result.kind = "None")
        => AutoAssigned(AfterRows(table, q, k - 1).table, AfterRows(table, q, k).table,
                        I64WrappingAdd(AfterRows(table, q, k - 1).table.last_rowid, I64From(1)))

\* C4: an insert that omits the primary-key column of a table whose primary
\* key is an Integer column uses rowid = last_rowid + 1, stores that same
\* number as the value of the key under that rowid in the row store and in
\* the index of the key column, and leaves last_rowid equal to it.
C4_AutoAssignment ==
    [][ InsertReachesRows =>
          OmittedKeyRows(tables[cmd'[1].table_name], InsertQueryNew(cmd'[1])) ]_vars

\* The value the caller paired with a column is what the row store of that
\* column holds under the rowid.
StoredUnder(table, name, rowid, val) ==
    /\ rowid \in DOMAIN table.rows[name].map
    /\ \/ table.rows[name].kind = "Integer"
          /\ ParseI32(val).ok /\ table.rows[name].map[rowid] = ParseI32(val).val
       \/ table.rows[name].kind = "Text" /\ table.rows[name].map[rowid] = val

ExplicitKeyStored(after, cols, values, rowid) ==
    /\ after.last_rowid = rowid
    /\ \A i \in 1..Len(cols) : StoredUnder(after, cols[i], rowid, values[i])
    /\ \A c \in ColumnLists :
          Names(c, after.primary_key) = {}
            => AssignRowid(after, c, <<>>).next_rowid = I64WrappingAdd(rowid, I64From(1))

ExplicitKeyRows(table, q) ==
    \A k \in 1..Len(q.rows) :
        (/\ HasIntegerKey(table)
         /\ Cardinality(Names(q.columns, table.primary_key)) = 1
         /\ AfterRows(table, q, k).result.kind = "None")
        => ExplicitKeyStored(AfterRows(table, q, k).table, q.columns, q.rows[k],
              ParseI64(q.rows[k][CHOOSE i \in Names(q.columns, table.primary_key) : TRUE]).val)

\* C5: after a successful insert that supplies the Integer primary-key value
\* V, all values of that row are stored under rowid V and last_rowid equals
\* V; the next insert that omits the key column is assigned V + 1.
C5_ExplicitKey ==
    [][ InsertReachesRows =>
          ExplicitKeyRows(tables[cmd'[1].table_name], InsertQueryNew(cmd'[1])) ]_vars

IndexConsistent(row, index) ==
    /\ \A key \in DOMAIN index.map :
          /\ index.map[key] \in DOMAIN row.map
          /\ row.map[index.map[key]] = key
    /\ \A r \in DOMAIN row.map : ContainsKey(index.map, row.map[r])

\* C6: in every reachable state, for every Integer or Text column, each index
\* entry (value -> rowid r) points to a rowid r whose value in the row store
\* of the column is that value, and every value held in the row store is a
\* key of the index.
C6_IndexConsistency ==
    Alive =>
      \A n \in DOMAIN tables : \A i \in 1..Len(tables[n].columns) :
          tables[n].columns[i].index.kind \in {"Integer", "Text"}
            => IndexConsistent(tables[n].rows[tables[n].columns[i].column_name],
                               tables[n].columns[i].index)

\* The step is a CREATE TABLE whose table name is in the catalog.
CreateOfExisting ==
    /\ Len(cmd') = 1
    /\ cmd'[1].kind = "CreateTable"
    /\ ContainsKey(tables, cmd'[1].name)

AlreadyExists == Err("Internal", <<"Cannot create, table already exists.">>)

\* C7 (as stated): a CREATE TABLE whose table name already exists fails with
\* an 'already exists' error and the catalog is unchanged.
C7_AlreadyExistsAlways ==
    [][ CreateOfExisting => (result' = AlreadyExists /\ tables' = tables) ]_vars

\* C7: a CREATE TABLE whose table name already exists leaves the catalog
\* unchanged (no table added or replaced; columns, row stores, indexes and
\* last_rowid of the first table as they were), and it fails with the
\* 'already exists' error when the Schema Translator accepts the statement;
\* otherwise it fails with the error of the translator.
C7_ExistingTableKept ==
    [][ CreateOfExisting =>
          /\ tables' = tables
          /\ result' = IF CreateQueryNew(cmd'[1]).ok THEN AlreadyExists
                       ELSE CreateQueryNew(cmd'[1]).err ]_vars

\* A second CREATE TABLE t was refused while t holds rows.
C7_Reached ==
    /\ Len(cmd) = 1
    /\ cmd[1].kind = "CreateTable"
    /\ result = AlreadyExists
    /\ ContainsKey(tables, "t")
    /\ StoredRowids(tables["t"]) # {}

\* C8: process_command returns a success string or a typed error for every
\* statement in every reachable database state; no INSERT makes it panic.
C8_NeverPanics == result.kind # "Panic"

(***************************************************************************)
(* Properties of the Schema Translator (specification SpecCreate)          *)
(***************************************************************************)
Translated == result.kind # "None"

DeclaresKey(column) ==
    \E k \in 1..Len(column.options) :
        column.options[k].kind = "Unique" /\ column.options[k].is_primary

DistinctNames(columns) ==
    \A i \in 1..Len(columns) : \A j \in 1..Len(columns) :
        columns[i].name = columns[j].name => i = j

TwoKeys(columns) ==
    \E i \in 1..Len(columns) : \E j \in 1..Len(columns) :
        /\ columns[i].name # columns[j].name
        /\ DeclaresKey(columns[i])
        /\ DeclaresKey(columns[j])

\* C9: a CREATE TABLE statement that declares PRIMARY KEY on two different
\* columns fails with a 'more than one primary key' error, whatever the types
\* of the two columns, and no table is added to the catalog.
C9_TwoKeysRejected ==
    (Translated /\ DistinctNames(cmd[1].columns) /\ TwoKeys(cmd[1].columns))
    => /\ result = Err("Internal", <<"Table '", cmd[1].name, "' has more than one primary key">>)
       /\ ~ContainsKey(tables, cmd[1].name)

\* Positions whose column name was declared at an earlier position.
Repeats(columns) ==
    {j \in 1..Len(columns) : \E i \in 1..(j - 1) : columns[i].name = columns[j].name}

SecondOccurrence(columns) ==
    CHOOSE j \in Repeats(columns) : \A k \in Repeats(columns) : j <= k

DuplicateColumn(name) == Err("Internal", <<"Duplicate column name: ", name>>)

\* C10 (as stated): a CREATE TABLE statement that declares the same column
\* name twice fails with a 'duplicate column name' error at the second
\* occurrence, and no table is added to the catalog.
C10_DuplicateNameError ==
    (Translated /\ Repeats(cmd[1].columns) # {})
    => /\ result = DuplicateColumn(cmd[1].columns[SecondOccurrence(cmd[1].columns)].name)
       /\ ~ContainsKey(tables, cmd[1].name)

BeforeSecondOccurrence(statement) ==
    ParseColumns(statement.name,
                 SubSeq(statement.columns, 1, SecondOccurrence(statement.columns) - 1),
                 1, <<>>)

\* C10: a CREATE TABLE statement that declares the same column name twice
\* fails and no table is added to the catalog; the error is the 'duplicate
\* column name' error of the second occurrence when the translator accepts
\* the columns before it, and the error of those columns otherwise.
C10_DuplicateNameFails ==
    (Translated /\ Repeats(cmd[1].columns) # {})
    => /\ ~ContainsKey(tables, cmd[1].name)
       /\ result = IF BeforeSecondOccurrence(cmd[1]).ok
                   THEN DuplicateColumn(cmd[1].columns[SecondOccurrence(cmd[1].columns)].name)
                   ELSE BeforeSecondOccurrence(cmd[1]).err

\* A statement of three columns was refused at its third column, the second
\* occurrence of a name.
C10_Reached ==
    /\ Translated
    /\ Len(cmd[1].columns) = 3
    /\ SecondOccurrence(cmd[1].columns) = 3
    /\ result = DuplicateColumn(cmd[1].columns[3].name)
    /\ ~ContainsKey(tables, cmd[1].name)

\* The parsed columns (or the columns of a table) come one for one, in
\* order, from the declared columns.
SameNames(columns, declared) ==
    /\ Len(columns) = Len(declared)
    /\ \A i \in 1..Len(declared) :
          /\ columns[i].name = declared[i].name
          /\ columns[i].datatype = DeclaredType(declared[i].data_type)

KeysOf(columns) == {i \in 1..Len(columns) : columns[i].is_pk}

AtMostOneKey(columns) ==
    /\ Cardinality(KeysOf(columns)) <= 1
    /\ \A i \in KeysOf(columns) : columns[i].not_null /\ columns[i].is_unique

TableFrom(table, declared) ==
    /\ Len(table.columns) = Len(declared)
    /\ \A i \in 1..Len(declared) :
          /\ table.columns[i].column_name = declared[i].name
          /\ table.columns[i].datatype = DataTypeNew(DeclaredType(declared[i].data_type))

\* C11: for every CREATE TABLE accepted by the Schema Translator, the parsed
\* columns are the declared columns in declaration order (same count), at
\* most one of them has is_pk = true, and a column with is_pk = true also has
\* not_null = true and is_unique = true; the same holds for the columns of
\* every table in the catalog.
C11_ParsedColumns ==
    /\ CreateQueryNew(cmd[1]).ok
         => /\ SameNames(CreateQueryNew(cmd[1]).columns, cmd[1].columns)
            /\ AtMostOneKey(CreateQueryNew(cmd[1]).columns)
    /\ \A n \in DOMAIN tables : AtMostOneKey(tables[n].columns)
    /\ ContainsKey(tables, cmd[1].name) => TableFrom(tables[cmd[1].name], cmd[1].columns)

\* A statement of three columns, one of them the primary key, was accepted
\* and its table is in the catalog.
C11_Reached ==
    /\ Translated
    /\ result.kind = "Ok"
    /\ Len(cmd[1].columns) = 3
    /\ ContainsKey(tables, cmd[1].name)
    /\ KeysOf(tables[cmd[1].name].columns) # {}

(***************************************************************************)
(* Properties of the dispatcher (specification Spec)                       *)
(***************************************************************************)
\* The step is an INSERT into a table that is not in the catalog, or one
\* that names a column the table does not have.
InsertNamesMissing ==
    /\ Len(cmd') = 1
    /\ cmd'[1].kind = "Insert"
    /\ \/ ~ContainsKey(tables, cmd'[1].table_name)
       \/ \E i \in 1..Len(cmd'[1].columns) :
             ~ContainsColumn(tables[cmd'[1].table_name], cmd'[1].columns[i])

\* C12: an INSERT that names at least one column not present on the target
\* table, or targets a table not in the catalog, fails before any row is
\* processed: no row store, index or last_rowid of any table is modified.
C12_MissingNamesRejected ==
    [][ InsertNamesMissing => (result'.kind = "Err" /\ tables' = tables) ]_vars

SomeColumnsMissing == Err("Internal", <<"Cannot insert, some of the columns do not exist">>)

\* An INSERT naming a column that table t does not have was refused while t
\* holds rows.
C12_Reached ==
    /\ Len(cmd) = 1
    /\ cmd[1].kind = "Insert"
    /\ result = SomeColumnsMissing
    /\ ContainsKey(tables, "t")
    /\ StoredRowids(tables["t"]) # {}

\* The step is an INSERT into a table of the catalog that names a column
\* the table does not have.
InsertNamesMissingColumn ==
    /\ Len(cmd') = 1
    /\ cmd'[1].kind = "Insert"
    /\ ContainsKey(tables, cmd'[1].table_name)
    /\ \E i \in 1..Len(cmd'[1].columns) :
          ~ContainsColumn(tables[cmd'[1].table_name], cmd'[1].columns[i])

\* The message of the error carries the name.
Carries(r, name) == \E k \in 1..Len(r.msg) : r.msg[k] = name

\* C13: the error returned for an INSERT that names columns not present on
\* the table identifies the offending columns: it carries every named column
\* that is missing from the table.
C13_ErrorNamesColumns ==
    [][ InsertNamesMissingColumn =>
          /\ result'.kind = "Err"
          /\ \A i \in 1..Len(cmd'[1].columns) :
                ~ContainsColumn(tables[cmd'[1].table_name], cmd'[1].columns[i])
                  => Carries(result', cmd'[1].columns[i]) ]_vars

\* "{} values for {} columns"
CountError(values, columns) ==
    Err("Internal", <<"", values, " values for ", columns, " columns">>)

MiscountedRowsRejected(table, q, after, res) ==
    \A k \in 1..Len(q.rows) :
        (/\ AfterRows(table, q, k - 1).result.kind = "None"
         /\ Len(q.rows[k]) # Len(q.columns))
        => /\ res = CountError(Len(q.rows[k]), Len(q.columns))
           /\ after = AfterRows(table, q, k - 1).table

\* C14: for each row of an INSERT, processed in order, if the number of
\* values of the row differs from the number of named columns the statement
\* fails with an error whose message states both counts (values, columns),
\* and that row is neither validated nor inserted: the table is what the
\* rows before it made of it.
C14_CountMismatch ==
    [][ InsertReachesRows =>
          MiscountedRowsRejected(tables[cmd'[1].table_name], InsertQueryNew(cmd'[1]),
                                 tables'[cmd'[1].table_name], result') ]_vars

\* The second row of a statement had two values for one column; the first
\* row stays inserted.
C14_Reached ==
    /\ Len(cmd) = 1
    /\ cmd[1].kind = "Insert"
    /\ Len(cmd[1].source.rows) = 2
    /\ result = CountError(2, 1)
    /\ ContainsKey(tables, "t")
    /\ StoredRowids(tables["t"]) # {}

\* The step is a CREATE TABLE that the Schema Translator refuses (duplicate
\* column, more than one primary key).
CreateRefused ==
    /\ Len(cmd') = 1
    /\ cmd'[1].kind = "CreateTable"
    /\ ~CreateQueryNew(cmd'[1]).ok

\* The step is a statement of a kind the dispatcher does not handle.
Unsupported ==
    /\ Len(cmd') = 1
    /\ cmd'[1].kind \notin {"CreateTable", "Insert", "Query", "Delete"}

\* C15: the error kinds returned by the dispatcher follow the stated
\* classification: table not found, column not found, unique / primary-key
\* violation and column / value count mismatch are General errors; duplicate
\* column and multiple primary keys are Internal; unsupported statement kinds
\* are NotImplemented; more than one submitted statement is an SqlError.
C15_ErrorKinds ==
    [][ result'.kind = "Err" =>
          /\ Len(cmd') > 1 => result'.err = "SqlError"
          /\ Unsupported => result'.err = "NotImplemented"
          /\ CreateRefused => result'.err = "Internal"
          /\ InsertNamesMissing => result'.err = "General"
          /\ InsertReachesRows => result'.err = "General" ]_vars

\* C16: SELECT and DELETE statements are stubs: in every database state,
\* also when the table they refer to does not exist, process_command returns
\* the success message of the statement and leaves the whole database
\* (catalog, row stores, indexes, last_rowid) unchanged.
C16_Stubs ==
    [][ Len(cmd') = 1 =>
          /\ cmd'[1].kind = "Query"
               => (result' = Ok("SELECT Statement executed.") /\ tables' = tables)
          /\ cmd'[1].kind = "Delete"
               => (result' = Ok("DELETE Statement executed.") /\ tables' = tables) ]_vars

\* DELETE FROM t succeeded and t still holds its rows.
C16_Reached ==
    /\ cmd = <<DeleteStmt("t")>>
    /\ result = Ok("DELETE Statement executed.")
    /\ ContainsKey(tables, "t")
    /\ StoredRowids(tables["t"]) # {}

\* C17: a statement of any kind other than CREATE TABLE, INSERT, SELECT and
\* DELETE (UPDATE for one) returns the NotImplemented error 'SQL Statement
\* not supported yet.' and leaves the database unchanged.
C17_NotImplemented ==
    [][ Unsupported =>
          /\ result' = Err("NotImplemented", <<"SQL Statement not supported yet.">>)
          /\ tables' = tables ]_vars

\* UPDATE t was refused while t holds rows.
C17_Reached ==
    /\ cmd = <<UpdateStmt("t")>>
    /\ result = Err("NotImplemented", <<"SQL Statement not supported yet.">>)
    /\ ContainsKey(tables, "t")
    /\ StoredRowids(tables["t"]) # {}

\* C18: if the submitted text parses into more than one statement,
\* process_command returns an SqlError and executes none of the statements:
\* the database is unchanged, even if the first statement alone would have
\* succeeded.
C18_SeveralStatements ==
    [][ Len(cmd') > 1 => (result'.err = "SqlError" /\ tables' = tables) ]_vars

\* Two statements were refused although the first one, CREATE TABLE t, would
\* have succeeded on its own: t is not in the catalog.
C18_Reached ==
    /\ Len(cmd) = 2
    /\ cmd[1].kind = "CreateTable"
    /\ ProcessCommand(<<cmd[1]>>, tables).result.kind = "Ok"
    /\ result.err = "SqlError"
    /\ ~ContainsKey(tables, "t")

(***************************************************************************)
(* Properties of the declared types (specification SpecCreate)             *)
(***************************************************************************)
Unrecognized(columns) ==
    \E i \in 1..Len(columns) :
        DataTypeNew(DeclaredType(columns[i].data_type)) = "Invalid"

\* C19: a CREATE TABLE statement declaring a column with an unrecognized type
\* is rejected by the Schema Translator, and no table of the catalog has a
\* column of datatype Invalid.
C19_InvalidRejected ==
    /\ (Translated /\ Unrecognized(cmd[1].columns)) => result.kind = "Err"
    /\ \A n \in DOMAIN tables : \A i \in 1..Len(tables[n].columns) :
          tables[n].columns[i].datatype # "Invalid"

(***************************************************************************)
(* Properties of Real and Bool columns declared UNIQUE (specification Spec)*)
(***************************************************************************)
\* The columns of a table as they were when the table was created.
Schema(table) ==
    [i \in 1..Len(table.columns) |-> [table.columns[i] EXCEPT !.index.map = EmptyMap]]

\* The table is the one the dispatcher creates from the statement.
CreatedFrom(table, statement) ==
    /\ CreateQueryNew(statement).ok
    /\ Schema(table) = TableNew(CreateQueryNew(statement)).columns

\* The statement declares the column as Real or Bool with UNIQUE or PRIMARY KEY.
DeclaresUniqueReal(statement, name) ==
    \E i \in 1..Len(statement.columns) :
        /\ statement.columns[i].name = name
        /\ DataTypeNew(DeclaredType(statement.columns[i].data_type)) \in {"Real", "Bool"}
        /\ \E k \in 1..Len(statement.columns[i].options) :
              statement.columns[i].options[k].kind = "Unique"

\* The step is an INSERT, with as many values as columns in its first row,
\* that supplies a value for a Real or Bool column declared UNIQUE.
SuppliesUniqueReal ==
    /\ InsertReachesRows
    /\ Len(cmd'[1].source.rows) >= 1
    /\ Len(InsertQueryNew(cmd'[1]).rows[1]) = Len(cmd'[1].columns)
    /\ \E s \in CreateStatements : \E i \in 1..Len(cmd'[1].columns) :
          /\ CreatedFrom(tables[cmd'[1].table_name], s)
          /\ DeclaresUniqueReal(s, cmd'[1].columns[i])

IsNoIndexError(r) ==
    /\ r.kind = "Err"
    /\ r.msg[1] = "Unique key constaint violation: "
    /\ Len(r.msg) = 4
    /\ r.msg[3] = "Error: cannot find index for column "

\* C20: for a table created through the dispatcher with a column of type Real
\* or Bool declared UNIQUE (or PRIMARY KEY), every INSERT that supplies a
\* value for that column fails with the error 'cannot find index for column
\* X' and stores nothing, so that the column never holds a value twice (an
\* INSERT that aborts with a panic is left aside).
C20_UniqueRealRejected ==
    [][ (SuppliesUniqueReal /\ result'.kind # "Panic") =>
          /\ IsNoIndexError(result')
          /\ tables' = tables
          /\ \A n \in DOMAIN tables'[cmd'[1].table_name].rows :
                NoValueTwice(tables'[cmd'[1].table_name].rows[n]) ]_vars

(***************************************************************************)
(* Properties of the positional lockstep (specification SpecRows)          *)
(***************************************************************************)
\* The row store of the column holds, under the rowid, what the text val
\* reads as in the type of the column.
Holds(table, name, rowid, val) ==
    /\ rowid \in DOMAIN table.rows[name].map
    /\ \/ /\ table.rows[name].kind = "Integer"
          /\ ParseI32(val).ok
          /\ table.rows[name].map[rowid] = ParseI32(val).val
       \/ /\ table.rows[name].kind = "Text"
          /\ table.rows[name].map[rowid] = val
       \/ /\ table.rows[name].kind = "Real"
          /\ ParseF32(val).ok
          /\ table.rows[name].map[rowid] = ParseF32(val).val
       \/ /\ table.rows[name].kind = "Bool"
          /\ ParseBool(val).ok
          /\ table.rows[name].map[rowid] = ParseBool(val).val

\* The caller's columns follow the order in which the table declares them.
InDeclarationOrder(table, cols) ==
    \A i \in 1..Len(cols) : \A j \in 1..Len(cols) :
        i < j => ColumnPos(table, cols[i]) < ColumnPos(table, cols[j])

\* The step is an INSERT of one row whose columns exist and are named in an
\* order different from the declaration order.
OutOfOrderInsert ==
    /\ InsertReachesRows
    /\ Len(cmd'[1].source.rows) = 1
    /\ ~InDeclarationOrder(tables[cmd'[1].table_name], cmd'[1].columns)

\* What the column c holds under the rowid of the row is accounted for
\* without any value of another column: it is the value the caller paired
\* with c, or the sentinel "Null" substituted for c, or c is the primary key
\* the caller left out, which receives the rowid.
Accounted(after, cols, values, c) ==
    \/ \E h \in 1..Len(cols) :
          cols[h] = c /\ Holds(after, c, after.last_rowid, values[h])
    \/ Holds(after, c, after.last_rowid, Null)
    \/ (c = after.primary_key /\ \A h \in 1..Len(cols) : cols[h] # c)

\* A value of the row ended up, under the rowid of the row, in a column
\* other than the one it was paired with: the column holds it, and holds
\* neither its own value nor the sentinel.
Misassigned(after, cols, values) ==
    \E i \in 1..Len(cols) : \E p \in 1..Len(after.columns) :
        /\ after.columns[p].column_name # cols[i]
        /\ Holds(after, after.columns[p].column_name, after.last_rowid, values[i])
        /\ ~Accounted(after, cols, values, after.columns[p].column_name)

\* The caller's columns from the place on where the forward cursor stops:
\* the loop over the declared columns never takes their values.
NeverTaken(table, cols) ==
    {i \in 1..Len(cols) : i >= Cursor(table, cols, 1, 1)}

\* The column was stored without its value: under the rowid of the row it
\* holds the sentinel "Null", or nothing when it is the primary key.
StoredWithoutValue(after, c) ==
    IF c = after.primary_key
    THEN after.last_rowid \notin DOMAIN after.rows[c].map
    ELSE Holds(after, c, after.last_rowid, Null)

InOrderInsert ==
    /\ InsertReachesRows
    /\ Len(cmd'[1].source.rows) = 1
    /\ InDeclarationOrder(tables[cmd'[1].table_name], cmd'[1].columns)

\* Under the rowid of the row every named column holds the value paired with
\* it and every other column, the primary key aside, holds "Null".
StoredInLockstep(after, cols, values) ==
    /\ \A i \in 1..Len(cols) : Holds(after, cols[i], after.last_rowid, values[i])
    /\ \A p \in 1..Len(after.columns) :
          (/\ Names(cols, after.columns[p].column_name) = {}
           /\ after.columns[p].column_name # after.primary_key)
          => Holds(after, after.columns[p].column_name, after.last_rowid, Null)

\* C22: when the caller's column list is a duplicate-free subsequence of the
\* declared column order, an insert_row that returns has stored, under the
\* rowid of the row, each named column's paired value in that column and the
\* sentinel "Null" in every unnamed column other than the primary key, and
\* the forward cursor has consumed every value of the caller.
C22_Lockstep ==
    [][ (InOrderInsert /\ result'.kind = "Ok") =>
          /\ StoredInLockstep(tables'[cmd'[1].table_name], cmd'[1].columns,
                              InsertQueryNew(cmd'[1]).rows[1])
          /\ Cursor(tables[cmd'[1].table_name], cmd'[1].columns, 1, 1)
               = Len(InsertQueryNew(cmd'[1]).rows[1]) + 1 ]_vars

\* INSERT INTO p (n, b) VALUES (1, 'y') succeeded: n holds 1, b holds 'y'
\* and the unnamed column a holds "Null".
C22_Reached ==
    /\ Len(cmd) = 1
    /\ cmd[1].kind = "Insert"
    /\ cmd[1].table_name = "p"
    /\ cmd[1].columns = <<"n", "b">>
    /\ result = Ok("INSERT Statement executed.")
    /\ Holds(tables["p"], "n", tables["p"].last_rowid, <<"1">>)
    /\ Holds(tables["p"], "b", tables["p"].last_rowid, <<"y">>)
    /\ Holds(tables["p"], "a", tables["p"].last_rowid, Null)

(***************************************************************************)
(* Frame of CREATE TABLE and INSERT (specification SpecRows)               *)
(***************************************************************************)
\* What the CREATE TABLE statement gave the table: its name, its columns
\* with their flags and empty indexes, the variants of its row stores and
\* the name of its primary key.
Declared(table) ==
    [ tb_name     |-> table.tb_name,
      columns     |-> Schema(table),
      rows        |-> [n \in DOMAIN table.rows |-> table.rows[n].kind],
      primary_key |-> table.primary_key ]

\* C23: an INSERT into table T never changes the schema of T (column names,
\* order, datatypes, flags, primary key), never changes any other table and
\* never adds or removes a table; a CREATE TABLE never changes a table that
\* is already in the catalog; no step removes a table.
C23_Frame ==
    [][ /\ DOMAIN tables \subseteq DOMAIN tables'
        /\ (Len(cmd') = 1 /\ cmd'[1].kind = "Insert") =>
              /\ DOMAIN tables' = DOMAIN tables
              /\ \A n \in DOMAIN tables :
                    /\ Declared(tables'[n]) = Declared(tables[n])
                    /\ n # cmd'[1].table_name => tables'[n] = tables[n]
        /\ (Len(cmd') = 1 /\ cmd'[1].kind = "CreateTable") =>
              \A n \in DOMAIN tables : tables'[n] = tables[n] ]_vars

\* The catalog holds two tables with a row each, and the last statement was
\* an INSERT into one of them.
C23_Reached ==
    /\ Len(cmd) = 1
    /\ cmd[1].kind = "Insert"
    /\ result.kind = "Ok"
    /\ Cardinality(DOMAIN tables) = 2
    /\ \A n \in DOMAIN tables : StoredRowids(tables[n]) # {}

(***************************************************************************)
(* Catalog lookups (specification SpecRows)                                *)
(***************************************************************************)
\* Names of tables that are or are not in the catalog.
LookedUp == {"p", "k", "q", "s", "t"}

TableNotFound == Err("General", <<"Table not found.">>)

\* The lookup returned the table under the name when contains_table is true
\* and the error otherwise, and left the catalog as it was.
Agrees(lookup, db, table_name) ==
    /\ lookup.ok = ContainsTable(db, table_name)
    /\ lookup.ok => lookup.table = db[table_name]
    /\ ~lookup.ok => lookup.err = TableNotFound
    /\ lookup.db = db

\* C24: get_table and get_table_mut return the table exactly when
\* contains_table is true for the name, and otherwise fail with the General
\* error 'Table not found.'; the lookups leave the catalog as it was.
C24_Lookups ==
    \A n \in LookedUp :
        /\ Agrees(GetTable(tables, n), tables, n)
        /\ Agrees(GetTableMut(tables, n), tables, n)

\* The catalog holds p with a row and s, and no table k: the lookups of p
\* and s succeed and the lookup of k fails.
C24_Reached ==
    /\ GetTable(tables, "p").ok
    /\ StoredRowids(GetTable(tables, "p").table) # {}
    /\ GetTableMut(tables, "s").ok
    /\ GetTable(tables, "k").err = TableNotFound

(***************************************************************************)
(* Rows and rowids (specifications SpecRows and Spec)                      *)
(***************************************************************************)
\* All row stores of the table hold the same rowids.
Aligned(table) ==
    \A n \in DOMAIN table.rows : \A m \in DOMAIN table.rows :
        DOMAIN table.rows[n].map = DOMAIN table.rows[m].map

\* C25: after every successful insert_row every column of the table, the
\* primary-key column included, has an entry under the rowid of the row, so
\* that in every reachable state all column row stores of a table hold
\* exactly the same set of rowids.
C25_RowAlignment ==
    Alive => \A n \in DOMAIN tables : Aligned(tables[n])

\* The row stored under rowid is new: the rowid was no key of any row store,
\* every value held before is still held, and the table holds one row more.
NewRow(before, after, rowid) ==
    /\ rowid \notin StoredRowids(before)
    /\ \A n \in DOMAIN before.rows : \A r \in DOMAIN before.rows[n].map :
          /\ r \in DOMAIN after.rows[n].map
          /\ after.rows[n].map[r] = before.rows[n].map[r]
    /\ Cardinality(StoredRowids(after)) = Cardinality(StoredRowids(before)) + 1

\* C26: every successful row insertion adds a new row: the rowid it uses is
\* not already a key of any column's row store of the table, no value stored
\* before is overwritten, and the number of stored rows grows by exactly
\* one, for any interleaving of explicit-key and omitted-key inserts.
C26_NewRow ==
    [][ (InsertReachesRows /\ Len(cmd'[1].source.rows) = 1 /\ result'.kind = "Ok") =>
          NewRow(tables[cmd'[1].table_name], tables'[cmd'[1].table_name],
                 tables'[cmd'[1].table_name].last_rowid) ]_vars

(***************************************************************************)
(* INSERT statements of several rows (specification Spec)                  *)
(***************************************************************************)
\* C27: whenever process_command returns an error for an INSERT statement,
\* also for a VALUES list of several rows in which a later row fails the
\* count check or the unique check, the database is what it was before the
\* statement: no earlier row of the statement remains inserted.
C27_StatementAtomic ==
    [][ (Len(cmd') = 1 /\ cmd'[1].kind = "Insert" /\ result'.kind = "Err")
          => tables' = tables ]_vars

\* Two rows carry the same value for a unique column that has an Integer or
\* Text index.
SameUniqueValue(table, cols, row1, row2) ==
    \E i \in 1..Len(cols) :
        LET column == table.columns[ColumnPos(table, cols[i])] IN
        /\ column.is_unique
        /\ row1[i] = row2[i]
        /\ \/ column.index.kind = "Text"
           \/ column.index.kind = "Integer" /\ ParseI32(row1[i]).ok

LaterDuplicatesRejected(table, q, after, res) ==
    \A j \in 1..Len(q.rows) : \A k \in 1..Len(q.rows) :
        (/\ j < k
         /\ RowReached(table, q, k)
         /\ SameUniqueValue(table, q.columns, q.rows[j], q.rows[k]))
        => /\ IsUniqueError(res)
           /\ after = AfterRows(table, q, k - 1).table

\* C28: within one INSERT of several rows the rows are handled in order and
\* the unique check of a row runs after the row before it was inserted, so
\* two rows of one statement that carry the same value for a unique Integer
\* or Text column are never both stored: the later one is rejected with a
\* unique-constraint error and the table is what the rows before it made of
\* it.
C28_LaterDuplicateRejected ==
    [][ InsertReachesRows =>
          LaterDuplicatesRejected(tables[cmd'[1].table_name], InsertQueryNew(cmd'[1]),
                                  tables'[cmd'[1].table_name], result') ]_vars

(***************************************************************************)
(* Values that do not parse (specification SpecRows)                       *)
(***************************************************************************)
\* The text reads as a value of the row store variant.
Parses(variant, val) ==
    CASE variant = "Integer" -> ParseI32(val).ok
      [] variant = "Real" -> ParseF32(val).ok
      [] variant = "Bool" -> ParseBool(val).ok
      [] OTHER -> TRUE

\* The row leaves out a column of type Integer, Real or Bool that is not the
\* primary key, or supplies for such a column a text that does not read as
\* a value of its type.
Unstorable(table, cols, values) ==
    \E p \in 1..Len(table.columns) :
        /\ table.columns[p].column_name # table.primary_key
        /\ table.rows[table.columns[p].column_name].kind \in {"Integer", "Real", "Bool"}
        /\ \A i \in Names(cols, table.columns[p].column_name) :
              ~Parses(table.rows[table.columns[p].column_name].kind, values[i])

\* The step is an INSERT of one row that is unstorable in this sense.
UnstorableInsert ==
    /\ InsertReachesRows
    /\ Len(cmd'[1].source.rows) = 1
    /\ Unstorable(tables[cmd'[1].table_name], cmd'[1].columns,
                  InsertQueryNew(cmd'[1]).rows[1])

\* C29: an INSERT row that omits a non-primary-key column of type Integer,
\* Real or Bool (so that "Null" is substituted for it), or supplies a
\* non-numeric / non-boolean text for such a column, never completes: the
\* operation aborts unless the unique check has refused the row before, the
\* success message is not returned and last_rowid is not advanced.
C29_HardFailure ==
    [][ UnstorableInsert =>
          /\ result'.kind = "Panic" \/ IsUniqueError(result')
          /\ tables'[cmd'[1].table_name].last_rowid
               = tables[cmd'[1].table_name].last_rowid ]_vars

\* INSERT INTO q (n, r) VALUES (1, 2) aborted on the omitted Bool column f
\* after a first row had been inserted: last_rowid is still 1.
C29_Reached ==
    /\ Len(cmd) = 1
    /\ cmd[1].kind = "Insert"
    /\ cmd[1].table_name = "q"
    /\ cmd[1].columns = <<"n", "r">>
    /\ result = Panic
    /\ tables["q"].last_rowid = I64From(1)
    /\ Holds(tables["q"], "f", I64From(1), <<"t", "r", "u", "e">>)

(***************************************************************************)
(* Flags of a primary key (specification SpecCreate)                       *)
(***************************************************************************)
\* C30: a column of type Integer or Text whose declaration contains a
\* PRIMARY KEY option is produced by the Schema Translator with is_pk = true,
\* not_null = true and is_unique = true, whatever other options (a further
\* UNIQUE or NOT NULL) accompany it and in whatever order they are listed.
C30_PrimaryKeyFlags ==
    (Translated /\ CreateQueryNew(cmd[1]).ok) =>
      \A i \in 1..Len(cmd[1].columns) :
          (/\ DeclaresKey(cmd[1].columns[i])
           /\ DataTypeNew(DeclaredType(cmd[1].columns[i].data_type))
                 \in {"Integer", "Text"})
          => /\ CreateQueryNew(cmd[1]).columns[i].is_pk
             /\ CreateQueryNew(cmd[1]).columns[i].not_null
             /\ CreateQueryNew(cmd[1]).columns[i].is_unique

(***************************************************************************)
(* Real and Bool columns declared UNIQUE or PRIMARY KEY (specification     *)
(* SpecCreate)                                                             *)
(***************************************************************************)
\* The column is declared with a type that maps to Real or Bool and with a
\* UNIQUE or PRIMARY KEY option.
UniqueRealOrBool(column) ==
    /\ DataTypeNew(DeclaredType(column.data_type)) \in {"Real", "Bool"}
    /\ \E k \in 1..Len(column.options) : column.options[k].kind = "Unique"

\* The statement with column i declared without its UNIQUE and PRIMARY KEY
\* options.
WithoutUnique(statement, i) ==
    [statement EXCEPT !.columns[i].options =
        SelectSeq(@, LAMBDA option : option.kind # "Unique")]

\* C31: for a column whose declared type maps to Real or Bool and that is
\* declared PRIMARY KEY or UNIQUE, the Schema Translator raises no error on
\* account of the option (it accepts or refuses the statement as it does
\* without the option) and outputs is_pk = false and is_unique = false for
\* the column, so that the table created has no primary key from it.
C31_RealBoolNeverKey ==
    Translated =>
      \A i \in 1..Len(cmd[1].columns) :
          UniqueRealOrBool(cmd[1].columns[i]) =>
            /\ CreateQueryNew(cmd[1]).ok = CreateQueryNew(WithoutUnique(cmd[1], i)).ok
            /\ CreateQueryNew(cmd[1]).err = CreateQueryNew(WithoutUnique(cmd[1], i)).err
            /\ CreateQueryNew(cmd[1]).ok =>
                  /\ ~CreateQueryNew(cmd[1]).columns[i].is_pk
                  /\ ~CreateQueryNew(cmd[1]).columns[i].is_unique
                  /\ result.kind = "Ok"
                  /\ tables[cmd[1].name].primary_key # cmd[1].columns[i].name
                  /\ tables[cmd[1].name].primary_key
                       = TableNew(CreateQueryNew(WithoutUnique(cmd[1], i))).primary_key

\* A statement that declares b REAL PRIMARY KEY and d BOOLEAN UNIQUE and no
\* other key was accepted: the table has no primary key.
C31_Reached ==
    /\ Translated
    /\ result.kind = "Ok"
    /\ \E i \in 1..Len(cmd[1].columns) :
          cmd[1].columns[i] = ColumnDef("b", "Real", <<PrimaryKey>>)
    /\ \E i \in 1..Len(cmd[1].columns) :
          cmd[1].columns[i] = ColumnDef("d", "Boolean", <<Unique>>)
    /\ tables[cmd[1].name].primary_key = "-1"

(***************************************************************************)
(* Index entries and the is_indexed flag (specification Spec)              *)
(***************************************************************************)
\* The index of column p maps some value to the rowid.
IndexedUnder(table, p, rowid) ==
    \E key \in DOMAIN table.columns[p].index.map :
        table.columns[p].index.map[key] = rowid

\* C32: insert_row adds an entry (value -> rowid) to the index of a column
\* if and only if the column is indexed: after a successful insert of one
\* row every column with is_indexed = true has an index entry for the rowid
\* of the row, also when it is a primary key whose value was omitted, and
\* the index of a column with is_indexed = false is as it was.
C32_IndexedOnly ==
    [][ (InsertReachesRows /\ Len(cmd'[1].source.rows) = 1 /\ result'.kind = "Ok") =>
          \A p \in 1..Len(tables[cmd'[1].table_name].columns) :
              IF tables[cmd'[1].table_name].columns[p].is_indexed
              THEN IndexedUnder(tables'[cmd'[1].table_name], p,
                                tables'[cmd'[1].table_name].last_rowid)
              ELSE tables'[cmd'[1].table_name].columns[p].index
                     = tables[cmd'[1].table_name].columns[p].index ]_vars

(***************************************************************************)
(* Variants of the row stores and of the indexes (specification SpecRows)  *)
(***************************************************************************)
\* The variant of the row store of a column of this datatype.
VariantOf(datatype) ==
    IF datatype \in {"Integer", "Text", "Real", "Bool"} THEN datatype ELSE "None"

\* The rows map has one entry for each declared column and no other, no two
\* columns share a name, the entry of a column has the variant of its
\* datatype, and its index is Integer for Integer, Text for Text and None
\* for every other datatype.
WellTyped(table) ==
    /\ DOMAIN table.rows = {table.columns[p].column_name : p \in 1..Len(table.columns)}
    /\ \A p \in 1..Len(table.columns) : \A o \in 1..Len(table.columns) :
          table.columns[p].column_name = table.columns[o].column_name => p = o
    /\ \A p \in 1..Len(table.columns) :
          /\ table.rows[table.columns[p].column_name].kind
               = VariantOf(table.columns[p].datatype)
          /\ table.columns[p].index.kind
               = IF table.columns[p].datatype \in {"Integer", "Text"}
                 THEN table.columns[p].datatype ELSE "None"

\* C33: in every reachable state the rows map of each table has exactly one
\* entry per declared column, present from construction, whose variant
\* matches the datatype of the column (None for an Invalid or None
\* datatype), and the index of each column is Integer for an Integer
\* column, Text for a Text column and None for all others.
C33_StructuralTyping ==
    \A n \in DOMAIN tables : WellTyped(tables[n])

\* Table z, whose column c has the Invalid datatype and the None variant,
\* stands next to table s, which holds a row under its Text columns.
C33_Reached ==
    /\ DOMAIN tables = {"z", "s"}
    /\ tables["z"].columns[1].datatype = "Invalid"
    /\ tables["z"].rows["c"].kind = "None"
    /\ tables["z"].columns[1].index.kind = "None"
    /\ StoredRowids(tables["s"]) # {}
    /\ result.kind = "Ok"

(***************************************************************************)
(* Rowids of a table without a primary key (specification SpecRows)        *)
(***************************************************************************)
\* The rowids 1..n.
FirstRowids(n) == {I64From(i) : i \in 1..n}

\* last_rowid is a number n within the bound on the rows and the row store
\* of every column has exactly the keys 1..n.
CountsRows(table) ==
    /\ \E n \in 0..(MaxRows + 1) : table.last_rowid = I64From(n)
    /\ \A c \in DOMAIN table.rows :
          table.rows[c].kind # "None" =>
             FirstRowids(table.last_rowid[2]) = DOMAIN table.rows[c].map

\* C34: in a table without a primary key every successful row insert uses
\* the rowid last_rowid + 1: a table that has received no successful insert
\* has last_rowid = 0, a successful insert of one row leaves last_rowid one
\* higher and stores the row under that rowid, a statement that stores no
\* row leaves last_rowid as it was, and so last_rowid is the number n of
\* successful row inserts and every column's row store has exactly the keys
\* 1..n.
C34_SequentialRowids ==
    /\ [](Alive => \A t \in DOMAIN tables :
                      tables[t].primary_key = "-1" => CountsRows(tables[t]))
    /\ [][ \A t \in DOMAIN tables :
              (tables[t].primary_key = "-1" /\ result'.kind # "Panic") =>
                 IF /\ InsertReachesRows
                    /\ cmd'[1].table_name = t
                    /\ result'.kind = "Ok"
                 THEN /\ tables'[t].last_rowid = I64WrappingAdd(tables[t].last_rowid, I64From(1))
                      /\ \A c \in DOMAIN tables'[t].rows :
                            DOMAIN tables'[t].rows[c].map
                              = DOMAIN tables[t].rows[c].map \cup {tables'[t].last_rowid}
                 ELSE tables'[t] = tables[t] ]_vars

\* Table p, which has no primary key, received two successful inserts, the
\* second of them with two columns omitted: last_rowid is 2 and every column
\* has the keys 1 and 2.
C34_Reached ==
    /\ "p" \in DOMAIN tables
    /\ result.kind = "Ok"
    /\ Len(cmd) = 1
    /\ cmd[1].kind = "Insert"
    /\ cmd[1].columns = <<"n">>
    /\ tables["p"].last_rowid = I64From(2)
    /\ \A c \in {"n", "a", "b"} :
          DOMAIN tables["p"].rows[c].map = {I64From(1), I64From(2)}

(***************************************************************************)
(* Named columns the forward cursor passes over (specification SpecRows)   *)
(***************************************************************************)
\* The positions of the caller's list that the cursor never consumes and
\* that do not name the primary key.
PassedOver(table, cols) ==
    {i \in 1..Len(cols) : /\ i >= Cursor(table, cols, 1, 1)
                          /\ cols[i] # table.primary_key}

\* Every column other than the primary key holds, under the rowid of the
\* row, a value the caller paired with its name or the sentinel "Null".
PairedOrNull(after, cols, values) ==
    \A p \in 1..Len(after.columns) :
        after.columns[p].column_name # after.primary_key =>
           \/ Holds(after, after.columns[p].column_name, after.last_rowid, Null)
           \/ \E i \in Names(cols, after.columns[p].column_name) :
                 Holds(after, after.columns[p].column_name, after.last_rowid, values[i])

\* C35: for any caller column list, in any order, each value that insert_row
\* stores in a column other than the primary key is the value the caller
\* paired with the name of the column or the sentinel "Null"; when the
\* forward cursor passes over a named column, the column receives "Null",
\* and the insert still completes and advances last_rowid.
C35_PassedOverCompletes ==
    [][ (InsertReachesRows /\ Len(cmd'[1].source.rows) = 1) =>
          /\ result'.kind = "Ok" =>
                PairedOrNull(tables'[cmd'[1].table_name], cmd'[1].columns,
                             InsertQueryNew(cmd'[1]).rows[1])
          /\ PassedOver(tables[cmd'[1].table_name], cmd'[1].columns) # {} =>
                /\ result'.kind = "Ok"
                /\ tables'[cmd'[1].table_name].last_rowid
                     # tables[cmd'[1].table_name].last_rowid
                /\ \A i \in PassedOver(tables[cmd'[1].table_name], cmd'[1].columns) :
                      Holds(tables'[cmd'[1].table_name], cmd'[1].columns[i],
                            tables'[cmd'[1].table_name].last_rowid, Null) ]_vars

(***************************************************************************)
(* The key value and the rowid (specification Spec)                        *)
(***************************************************************************)
\* C36: for a table with an Integer primary key, the value stored in the key
\* column under rowid r equals r in every reachable state, also when an
\* auto-assigned rowid lies beyond the signed 32-bit range.
C36_KeyEqualsRowid ==
    Alive =>
      \A n \in DOMAIN tables :
          HasIntegerKey(tables[n]) =>
             \A r \in DOMAIN tables[n].rows[tables[n].primary_key].map :
                 I64From(tables[n].rows[tables[n].primary_key].map[r]) = r

(***************************************************************************)
(* NOT NULL columns and the sentinel (specification SpecRows)              *)
(***************************************************************************)
\* No column flagged not_null holds the sentinel "Null" under any rowid
\* (only a Text row store can hold the text).
NoNullHeld(table) ==
    \A p \in 1..Len(table.columns) :
        (/\ table.columns[p].not_null
         /\ table.rows[table.columns[p].column_name].kind = "Text")
        => \A r \in DOMAIN table.rows[table.columns[p].column_name].map :
              table.rows[table.columns[p].column_name].map[r] # Null

\* The row leaves out a column flagged not_null, or supplies NULL for it; an
\* Integer primary key may be left out, its value is then assigned.
LacksRequired(table, cols, values) ==
    \E p \in 1..Len(table.columns) :
        /\ table.columns[p].not_null
        /\ \/ /\ Names(cols, table.columns[p].column_name) = {}
              /\ ~(/\ table.columns[p].column_name = table.primary_key
                   /\ HasIntegerKey(table))
           \/ \E i \in Names(cols, table.columns[p].column_name) : values[i] = Null

\* C37: NOT NULL is enforced on stored data: after every step no column with
\* not_null = true (a NOT NULL column or the primary key) holds the sentinel
\* "Null" for any rowid, and an insert that omits such a column or supplies
\* NULL for it does not store a row.
C37_NotNullEnforced ==
    [][ /\ result'.kind # "Panic" =>
              \A t \in DOMAIN tables' : NoNullHeld(tables'[t])
        /\ (/\ InsertReachesRows
            /\ Len(cmd'[1].source.rows) = 1
            /\ Len(cmd'[1].source.rows[1]) = Len(cmd'[1].columns)
            /\ LacksRequired(tables[cmd'[1].table_name], cmd'[1].columns,
                             InsertQueryNew(cmd'[1]).rows[1]))
           => /\ result'.kind # "Ok"
              /\ StoredRowids(tables'[cmd'[1].table_name])
                   = StoredRowids(tables[cmd'[1].table_name]) ]_vars

(***************************************************************************)
(* Written expressions and the count check (specification Spec)            *)
(***************************************************************************)
\* C38: the dispatcher stores a row only if the number of value expressions
\* written for that row in the INSERT statement equals the number of named
\* columns: every row of the statement that went through the count check,
\* the validation and insert_row was written with as many expressions as
\* there are columns.
C38_WrittenCountChecked ==
    [][ InsertReachesRows =>
          \A k \in 1..Len(cmd'[1].source.rows) :
              AfterRows(tables[cmd'[1].table_name], InsertQueryNew(cmd'[1]), k).result.kind
                 = "None"
              => Len(cmd'[1].source.rows[k]) = Len(cmd'[1].columns) ]_vars

====
